---- MODULE Spec2Model ----
(***************************************************************************)
(* Model of the field-expression algebra (acir_gen.rs: add, mul,           *)
(* single_mul), of the gate optimiser (general_optimiser.rs) and of the    *)
(* node arena of the SSA builder (code_gen.rs: constants, instructions).   *)
(***************************************************************************)
EXTENDS Integers, Sequences, FiniteSets, TLC

VARIABLES
    pc,            \* position of the operation under way
    a,             \* first operand  (Arithmetic)
    b,             \* second operand (Arithmetic)
    c,             \* third operand  (Arithmetic), used by the associativity law
    k,             \* scalar of add(a, k, b)
    output,        \* the expression under construction / returned
    output2,       \* a second returned expression (laws that compare two calls)
    i1,            \* cursor into a.linear_combinations (0-based, as in the code)
    i2,            \* cursor into b.linear_combinations (0-based, as in the code)
    gate,          \* the gate handed to GeneralOpt::optimise
    nodes,         \* IRGenerator.nodes: the arena, a handle is an index
    instructions,  \* the current block's instruction list
    call,          \* the latest IRGenerator call and its arguments
    ret,           \* the handle the latest call returned (0: none)
    blocks,        \* IRGenerator.blocks: the basic blocks, a handle is an index
    current_block, \* IRGenerator.current_block
    sealed_blocks, \* IRGenerator.sealed_blocks
    loops,         \* the evaluate_main and handle_for_expr calls under way, innermost first
    arith_cache,   \* Acir.arith_cache: node handle -> InternalVar
    memory_map,    \* Acir.memory_map: address -> InternalVar
    gates,         \* Evaluator.gates
    current_witness_index, \* Evaluator.current_witness_index
    witness_values \* the values the prover gives to the witnesses 1, 2, ..

algVars == <<a, b, c, k, output, output2, i1, i2>>
optVars == <<gate>>
genVars == <<nodes, instructions, call, ret>>
cfgVars == <<blocks, current_block, sealed_blocks, loops>>
acirVars == <<arith_cache, memory_map, gates, current_witness_index, witness_values>>
vars == <<pc, algVars, optVars, genVars, cfgVars, acirVars>>

----------------------------------------------------------------------------
(* Bounds of the model *)

\* longest linear-term list of an input expression
MaxLin == 2
\* longest bilinear-term list of an input expression
MaxMul == 1

\* witnesses that occur in input expressions (Witness is an ordered u32)
Witnesses == {1, 2}

----------------------------------------------------------------------------
(* FieldElement: a prime field, scaled down. The laws of the algebra are     *)
(* checked over the field of 3 elements (so -1 = 2); the lowering and the    *)
(* gates it emits need the powers of two of a few bit widths to be distinct  *)
(* field elements, and are checked over the field of 23 elements, which has  *)
(* 5 bits and, as the field of the source, lies between 2^(bits-1) and       *)
(* 3 * 2^(bits-2).                                                           *)

AlgebraModulus == 3
LoweringModulus == 23
\* the positions of the lowering pass and of its helpers
LoweringPositions == {"lower", "stopped", "call", "called", "solved"}
\* the largest prime of 8 bits, for the calls of range_constraint on their own
WidthModulus == 251
FieldModulus ==
    IF pc = "width" THEN WidthModulus
    ELSE IF pc \in LoweringPositions THEN LoweringModulus
    ELSE AlgebraModulus
Field == 0 .. (FieldModulus - 1)
FAdd(x, y) == (x + y) % FieldModulus
FMul(x, y) == (x * y) % FieldModulus
FNeg(x) == (FieldModulus - x) % FieldModulus
FZero == 0
FOne == 1

----------------------------------------------------------------------------
(* Arithmetic: mul_terms (coef, w_l, w_r), linear_combinations (coef, w), q_c *)

Arithmetic(m, l, q) == [mul_terms |-> m, linear_combinations |-> l, q_c |-> q]
ArithmeticDefault == Arithmetic(<<>>, <<>>, FZero)

\* Ord on Witness and on (Witness, Witness): -1 Less, 0 Equal, 1 Greater
CmpWitness(x, y) == IF x < y THEN -1 ELSE IF x = y THEN 0 ELSE 1
CmpPair(x1, x2, y1, y2) ==
    IF x1 # y1 THEN CmpWitness(x1, y1) ELSE CmpWitness(x2, y2)

\* a push that keeps zero coefficients
PushAlways(out, coef, term) == Append(out, term)

\* `if coef != FieldElement::zero() { output.push(term) }`
PushNonZero(out, coef, term) == IF coef # FZero THEN Append(out, term) ELSE out

\* AddLinear with the b-tail loop pushing b's term unscaled
RECURSIVE AddLinearTailUnscaled(_, _, _, _, _, _)
AddLinearTailUnscaled(la, lb, kk, j1, j2, out) ==
    IF j1 <= Len(la) /\ j2 <= Len(lb) THEN
        LET ord == CmpWitness(la[j1][2], lb[j2][2]) IN
        IF ord = 1 THEN
            LET coef == FMul(lb[j2][1], kk) IN
            AddLinearTailUnscaled(la, lb, kk, j1, j2 + 1,
                      PushNonZero(out, coef, <<coef, lb[j2][2]>>))
        ELSE IF ord = -1 THEN
            AddLinearTailUnscaled(la, lb, kk, j1 + 1, j2, Append(out, la[j1]))
        ELSE
            LET coef == FAdd(la[j1][1], FMul(lb[j2][1], kk)) IN
            AddLinearTailUnscaled(la, lb, kk, j1 + 1, j2 + 1,
                      PushNonZero(out, coef, <<coef, la[j1][2]>>))
    ELSE IF j1 <= Len(la) THEN
        AddLinearTailUnscaled(la, lb, kk, j1 + 1, j2, Append(out, la[j1]))
    ELSE IF j2 <= Len(lb) THEN
        AddLinearTailUnscaled(la, lb, kk, j1, j2 + 1, Append(out, lb[j2]))
    ELSE out

\* the three loops over linear_combinations of add (cursors are 1-based here)
RECURSIVE AddLinear(_, _, _, _, _, _)
AddLinear(la, lb, kk, j1, j2, out) ==
    IF j1 <= Len(la) /\ j2 <= Len(lb) THEN
        LET ord == CmpWitness(la[j1][2], lb[j2][2]) IN
        IF ord = 1 THEN
            LET coef == FMul(lb[j2][1], kk) IN
            AddLinear(la, lb, kk, j1, j2 + 1,
                      PushNonZero(out, coef, <<coef, lb[j2][2]>>))
        ELSE IF ord = -1 THEN
            AddLinear(la, lb, kk, j1 + 1, j2, Append(out, la[j1]))
        ELSE
            LET coef == FAdd(la[j1][1], FMul(lb[j2][1], kk)) IN
            AddLinear(la, lb, kk, j1 + 1, j2 + 1,
                      PushNonZero(out, coef, <<coef, la[j1][2]>>))
    ELSE IF j1 <= Len(la) THEN
        AddLinear(la, lb, kk, j1 + 1, j2, Append(out, la[j1]))
    ELSE IF j2 <= Len(lb) THEN
        LET coef == FMul(lb[j2][1], kk) IN
        AddLinear(la, lb, kk, j1, j2 + 1,
                  PushNonZero(out, coef, <<coef, lb[j2][2]>>))
    ELSE out

\* the three loops over mul_terms of add
RECURSIVE AddMulTerms(_, _, _, _, _, _)
AddMulTerms(ma, mb, kk, j1, j2, out) ==
    IF j1 <= Len(ma) /\ j2 <= Len(mb) THEN
        LET ord == CmpPair(ma[j1][2], ma[j1][3], mb[j2][2], mb[j2][3]) IN
        IF ord = 1 THEN
            LET coef == FMul(mb[j2][1], kk) IN
            AddMulTerms(ma, mb, kk, j1, j2 + 1,
                        PushNonZero(out, coef, <<coef, mb[j2][2], mb[j2][3]>>))
        ELSE IF ord = -1 THEN
            AddMulTerms(ma, mb, kk, j1 + 1, j2, Append(out, ma[j1]))
        ELSE
            LET coef == FAdd(ma[j1][1], FMul(mb[j2][1], kk)) IN
            AddMulTerms(ma, mb, kk, j1 + 1, j2 + 1,
                        PushNonZero(out, coef, <<coef, ma[j1][2], ma[j1][3]>>))
    ELSE IF j1 <= Len(ma) THEN
        AddMulTerms(ma, mb, kk, j1 + 1, j2, Append(out, ma[j1]))
    ELSE IF j2 <= Len(mb) THEN
        LET coef == FMul(mb[j2][1], kk) IN
        AddMulTerms(ma, mb, kk, j1, j2 + 1,
                    PushNonZero(out, coef, <<coef, mb[j2][2], mb[j2][3]>>))
    ELSE out

\* returns a + k*b
add(x, kk, y) ==
    Arithmetic(AddMulTerms(x.mul_terms, y.mul_terms, kk, 1, 1, <<>>),
               AddLinear(x.linear_combinations, y.linear_combinations, kk, 1, 1, <<>>),
               FAdd(x.q_c, FMul(kk, y.q_c)))

----------------------------------------------------------------------------
(* Input expressions: term lists sorted by witness / witness pair, unique keys *)

Min(S) == CHOOSE x \in S : \A y \in S : x <= y

RECURSIVE SortedWitnesses(_)
SortedWitnesses(S) ==
    IF S = {} THEN <<>>
    ELSE LET m == Min(S) IN <<m>> \o SortedWitnesses(S \ {m})

\* witness pairs in canonical order (w_l <= w_r)
Pairs == {p \in Witnesses \X Witnesses : p[1] <= p[2]}

MinPair(S) == CHOOSE x \in S : \A y \in S : CmpPair(x[1], x[2], y[1], y[2]) <= 0

RECURSIVE SortedPairs(_)
SortedPairs(S) ==
    IF S = {} THEN <<>>
    ELSE LET m == MinPair(S) IN <<m>> \o SortedPairs(S \ {m})

NonZero == Field \ {FZero}

\* sorted linear-term lists of at most n terms with coefficients in C
LinearLists(C, n) ==
    UNION {
        LET ws == SortedWitnesses(S) IN
        {[j \in 1 .. Len(ws) |-> <<f[ws[j]], ws[j]>>] : f \in [S -> C]}
        : S \in {T \in SUBSET Witnesses : Cardinality(T) <= n}}

\* sorted bilinear-term lists of at most n terms with coefficients in C
MulLists(C, n) ==
    UNION {
        LET ps == SortedPairs(S) IN
        {[j \in 1 .. Len(ps) |-> <<f[ps[j]], ps[j][1], ps[j][2]>>] : f \in [S -> C]}
        : S \in {T \in SUBSET Pairs : Cardinality(T) <= n}}

\* canonical expressions: sorted, unique keys, non-zero coefficients
CanonicalExprs ==
    {Arithmetic(m, l, q) :
        m \in MulLists(NonZero, MaxMul), l \in LinearLists(NonZero, MaxLin), q \in Field}

IsSortedLinear(l) == \A j \in 1 .. Len(l) - 1 : l[j][2] < l[j + 1][2]
IsSortedMul(m) ==
    \A j \in 1 .. Len(m) - 1 : CmpPair(m[j][2], m[j][3], m[j + 1][2], m[j + 1][3]) = -1
NoZeroCoef(s) == \A j \in 1 .. Len(s) : s[j][1] # FZero
IsCanonical(e) ==
    /\ IsSortedLinear(e.linear_combinations) /\ NoZeroCoef(e.linear_combinations)
    /\ IsSortedMul(e.mul_terms) /\ NoZeroCoef(e.mul_terms)

\* the polynomial an expression denotes: coefficient of each witness / pair
RECURSIVE SumCoefs(_, _)
SumCoefs(s, J) ==
    IF J = {} THEN FZero
    ELSE LET j == Min(J) IN FAdd(s[j][1], SumCoefs(s, J \ {j}))
CoefOfWitness(e, w) ==
    LET l == e.linear_combinations IN
    SumCoefs(l, {j \in 1 .. Len(l) : l[j][2] = w})
CoefOfPair(e, w1, w2) ==
    LET m == e.mul_terms IN
    SumCoefs(m, {j \in 1 .. Len(m) : {m[j][2], m[j][3]} = {w1, w2}})

\* sorted expressions with unique keys whose linear coefficients may be zero
SortedExprs ==
    {Arithmetic(m, l, q) :
        m \in MulLists(NonZero, MaxMul), l \in LinearLists(Field, MaxLin), q \in Field}

\* canonical expressions whose terms are all linear or all bilinear
UniformExprs ==
    {e \in CanonicalExprs : e.mul_terms = <<>> \/ e.linear_combinations = <<>>}

----------------------------------------------------------------------------
(* parts of the state a specification leaves idle *)

InitAlgIdle ==
    /\ a = ArithmeticDefault
    /\ b = ArithmeticDefault
    /\ c = ArithmeticDefault
    /\ k = FZero
    /\ output = ArithmeticDefault
    /\ output2 = ArithmeticDefault
    /\ i1 = 0
    /\ i2 = 0

InitOptIdle == gate = ArithmeticDefault

NoCall == [op |-> "none"]

InitGenIdle ==
    /\ nodes = <<>>
    /\ instructions = <<>>
    /\ call = NoCall
    /\ ret = 0

InitCfgIdle ==
    /\ blocks = <<>>
    /\ current_block = 0
    /\ sealed_blocks = {}
    /\ loops = <<>>

InitAcirIdle ==
    /\ arith_cache = <<>>
    /\ memory_map = <<>>
    /\ gates = <<>>
    /\ current_witness_index = 0
    /\ witness_values = <<>>

----------------------------------------------------------------------------
(* add(a, k, b) applied to drawn inputs *)

InitAdd ==
    /\ pc = "start"
    /\ a \in SortedExprs
    /\ b \in CanonicalExprs
    /\ c = ArithmeticDefault
    /\ k \in Field
    /\ output = ArithmeticDefault
    /\ output2 = ArithmeticDefault
    /\ i1 = 0
    /\ i2 = 0
    /\ InitOptIdle
    /\ InitGenIdle
    /\ InitCfgIdle
    /\ InitAcirIdle

Add ==
    /\ pc = "start"
    /\ output' = add(a, k, b)
    /\ pc' = "added"
    /\ UNCHANGED <<a, b, c, k, output2, i1, i2, optVars, genVars, cfgVars, acirVars>>

NextAdd == Add
SpecAdd == InitAdd /\ [][NextAdd]_vars

\* C1: add(a, k, b) denotes a + k*b: every witness and witness pair has
\* coefficient coef_a + k*coef_b and the constant term is a.q_c + k*b.q_c
AddIsLinearCombination ==
    pc = "added" =>
        /\ \A w \in Witnesses :
              CoefOfWitness(output, w) =
                  FAdd(CoefOfWitness(a, w), FMul(k, CoefOfWitness(b, w)))
        /\ \A p \in Pairs :
              CoefOfPair(output, p[1], p[2]) =
                  FAdd(CoefOfPair(a, p[1], p[2]), FMul(k, CoefOfPair(b, p[1], p[2])))
        /\ output.q_c = FAdd(a.q_c, FMul(k, b.q_c))

\* a merge with k = -1 where both lists hold two witnesses, both operands hold
\* a bilinear term, and a holds a zero coefficient
AddMergedWitness ==
    /\ pc = "added"
    /\ k = FNeg(FOne)
    /\ Len(a.linear_combinations) = 2 /\ Len(b.linear_combinations) = 2
    /\ Len(a.mul_terms) = 1 /\ Len(b.mul_terms) = 1
    /\ ~NoZeroCoef(a.linear_combinations)
    /\ Len(output.linear_combinations) = 2

\* C2: for canonical a and b and every k (0 included) add(a, k, b) is canonical:
\* no zero coefficient, both lists strictly increasing by witness / witness pair
AddKeepsCanonical ==
    (pc = "added" /\ IsCanonical(a) /\ IsCanonical(b)) => IsCanonical(output)

\* canonical operands of which one witness cancels (a_w + k*b_w = 0) while
\* another term survives
AddCancelsWitness ==
    /\ pc = "added" /\ IsCanonical(a) /\ IsCanonical(b)
    /\ \E w \in Witnesses :
          /\ CoefOfWitness(a, w) # FZero /\ CoefOfWitness(b, w) # FZero
          /\ \A j \in 1 .. Len(output.linear_combinations) :
                output.linear_combinations[j][2] # w
    /\ Len(a.mul_terms) = 1 /\ Len(b.mul_terms) = 1 /\ output.mul_terms = <<>>
    /\ output.linear_combinations # <<>>

----------------------------------------------------------------------------
(* add(a, k, add(b, 1, c)) against add(add(a, k, b), k, c) *)

InitAssoc ==
    /\ pc = "start"
    /\ a \in UniformExprs
    /\ b \in UniformExprs
    /\ c \in UniformExprs
    /\ k \in Field
    /\ output = ArithmeticDefault
    /\ output2 = ArithmeticDefault
    /\ i1 = 0
    /\ i2 = 0
    /\ InitOptIdle
    /\ InitGenIdle
    /\ InitCfgIdle
    /\ InitAcirIdle

AddAssoc ==
    /\ pc = "start"
    /\ output' = add(a, k, add(b, FOne, c))
    /\ output2' = add(add(a, k, b), k, c)
    /\ pc' = "assoc"
    /\ UNCHANGED <<a, b, c, k, i1, i2, optVars, genVars, cfgVars, acirVars>>

NextAssoc == AddAssoc
SpecAssoc == InitAssoc /\ [][NextAssoc]_vars

\* C3: add(a, k, add(b, 1, c)) is structurally equal to add(add(a, k, b), k, c)
AddAssociative == pc = "assoc" => output = output2

\* k = -1, a witness held by b and c only, and a non-empty result
AddAssocWitness ==
    /\ pc = "assoc"
    /\ k = FNeg(FOne)
    /\ \E w \in Witnesses :
          /\ CoefOfWitness(a, w) = FZero
          /\ CoefOfWitness(b, w) # FZero /\ CoefOfWitness(c, w) # FZero
    /\ a.mul_terms # <<>>
    /\ output.linear_combinations # <<>> /\ output.mul_terms # <<>>

----------------------------------------------------------------------------
(* mul(a, b) *)

\* returns w*b.linear_combinations
single_mul(w, y) ==
    LET lb == y.linear_combinations IN
    Arithmetic([j \in 1 .. Len(lb) |->
                   IF CmpPair(w, lb[j][2], lb[j][2], w) = -1
                   THEN <<lb[j][1], w, lb[j][2]>>
                   ELSE <<lb[j][1], lb[j][2], w>>],
               <<>>, FZero)

\* a guard that rejects only two operands with bilinear terms
MulPanicsWhenBoth(x, y) == x.mul_terms # <<>> /\ y.mul_terms # <<>>

\* `if !(a.mul_terms.is_empty() && b.mul_terms.is_empty()) { todo!("PANIC") }`
MulPanics(x, y) == ~(x.mul_terms = <<>> /\ y.mul_terms = <<>>)

\* `for lc in &a.linear_combinations { output = add(&output, lc.0, &single_mul(lc.1, b)) }`
RECURSIVE MulBilinear(_, _, _, _)
MulBilinear(x, y, j, out) ==
    IF j > Len(x.linear_combinations) THEN out
    ELSE MulBilinear(x, y, j + 1,
             add(out, x.linear_combinations[j][1],
                 single_mul(x.linear_combinations[j][2], y)))

\* the condition of the while loop over the linear terms (0-based cursors)
MulLoopCond(x, y, j1, j2) ==
    j1 < Len(x.linear_combinations) /\ j2 < Len(y.linear_combinations)

\* one iteration of the while loop: the cursors and the linear terms pushed
MulLoopBody(x, y, j1, j2, out) ==
    LET la == x.linear_combinations
        lb == y.linear_combinations
        ta == la[j1 + 1]
        tb == lb[j2 + 1]
        coef_a == FMul(y.q_c, ta[1])
        coef_b == FMul(x.q_c, tb[1])
        ord == CmpWitness(ta[2], tb[2])
    IN
    IF ord = 1 THEN
        [out |-> PushNonZero(out, coef_b, <<coef_b, tb[2]>>),
         i1 |-> IF j2 + 1 >= Len(lb) THEN j1 + 1 ELSE j1,
         i2 |-> IF j2 + 1 >= Len(lb) THEN j2 ELSE j2 + 1]
    ELSE IF ord = -1 THEN
        [out |-> PushNonZero(out, coef_a, <<coef_a, ta[2]>>),
         i1 |-> IF j1 + 1 >= Len(la) THEN j1 ELSE j1 + 1,
         i2 |-> IF j1 + 1 >= Len(la) THEN j2 + 1 ELSE j2]
    ELSE
        [out |-> PushNonZero(out, FAdd(coef_a, coef_b), <<FAdd(coef_a, coef_b), ta[2]>>),
         i1 |-> IF (j1 + 1 >= Len(la)) /\ (j2 + 1 >= Len(lb)) THEN j1 + 1
                ELSE IF j1 + 1 < Len(la) THEN j1 + 1 ELSE j1,
         i2 |-> IF (j1 + 1 >= Len(la)) /\ (j2 + 1 >= Len(lb)) THEN j2 + 1
                ELSE IF j2 + 1 < Len(la) THEN j2 + 1 ELSE j2]

\* the while loop run to its exit; an iteration that moves no cursor repeats
\* for ever, since the loop condition and the arm taken depend on the cursors only
RECURSIVE MulLoop(_, _, _, _, _)
MulLoop(x, y, j1, j2, out) ==
    IF MulLoopCond(x, y, j1, j2) THEN
        LET n == MulLoopBody(x, y, j1, j2, out) IN
        IF n.i1 = j1 /\ n.i2 = j2 THEN [diverges |-> TRUE, out |-> out]
        ELSE MulLoop(x, y, n.i1, n.i2, n.out)
    ELSE [diverges |-> FALSE, out |-> out]

\* a*b: what the call does (returns, panics, never returns) and the value returned
mul(x, y) ==
    IF MulPanics(x, y) THEN [outcome |-> "panic", value |-> ArithmeticDefault]
    ELSE
        LET bil == MulBilinear(x, y, 1, ArithmeticDefault)
            lin == MulLoop(x, y, 0, 0, bil.linear_combinations)
        IN
        IF lin.diverges THEN [outcome |-> "diverges", value |-> ArithmeticDefault]
        ELSE [outcome |-> "returns",
              value |-> Arithmetic(bil.mul_terms, lin.out, FMul(x.q_c, y.q_c))]

\* most linear terms a run of the loop is followed for
PushCap == 2 * MaxLin + 2

InitMul ==
    /\ pc = "start"
    /\ a \in CanonicalExprs
    /\ b \in CanonicalExprs
    /\ c = ArithmeticDefault
    /\ k = FZero
    /\ output = ArithmeticDefault
    /\ output2 = ArithmeticDefault
    /\ i1 = 0
    /\ i2 = 0
    /\ InitOptIdle
    /\ InitGenIdle
    /\ InitCfgIdle
    /\ InitAcirIdle

\* entry of mul: the guard, then the bilinear terms
MulEnter ==
    /\ pc = "start"
    /\ IF MulPanics(a, b)
       THEN /\ pc' = "panic"
            /\ UNCHANGED output
       ELSE /\ pc' = "loop"
            /\ output' = MulBilinear(a, b, 1, ArithmeticDefault)
    /\ i1' = 0
    /\ i2' = 0
    /\ UNCHANGED <<a, b, c, k, output2, optVars, genVars, cfgVars, acirVars>>

\* one iteration of the while loop over the linear terms
MulLoopIter ==
    /\ pc = "loop"
    /\ MulLoopCond(a, b, i1, i2)
    /\ Len(output.linear_combinations) < PushCap
    /\ LET n == MulLoopBody(a, b, i1, i2, output.linear_combinations) IN
        /\ i1' = n.i1
        /\ i2' = n.i2
        /\ output' = [output EXCEPT !.linear_combinations = n.out]
    /\ UNCHANGED <<pc, a, b, c, k, output2, optVars, genVars, cfgVars, acirVars>>

\* exit of the loop: the constant term, and the return
MulReturn ==
    /\ pc = "loop"
    /\ ~MulLoopCond(a, b, i1, i2)
    /\ output' = [output EXCEPT !.q_c = FMul(a.q_c, b.q_c)]
    /\ pc' = "done"
    /\ UNCHANGED <<a, b, c, k, output2, i1, i2, optVars, genVars, cfgVars, acirVars>>

NextMul == MulEnter \/ MulLoopIter \/ MulReturn
SpecMul == InitMul /\ [][NextMul]_vars

\* the product of two expressions without bilinear terms, term by term
RECURSIVE SumProducts(_, _, _)
SumProducts(la, lb, S) ==
    IF S = {} THEN FZero
    ELSE LET p == CHOOSE q \in S : TRUE IN
         FAdd(FMul(la[p[1]][1], lb[p[2]][1]), SumProducts(la, lb, S \ {p}))
ProductCoefOfPair(x, y, w1, w2) ==
    LET la == x.linear_combinations
        lb == y.linear_combinations
    IN SumProducts(la, lb, {p \in (1 .. Len(la)) \X (1 .. Len(lb)) :
                               {la[p[1]][2], lb[p[2]][2]} = {w1, w2}})
IsProduct(e, x, y) ==
    /\ \A p \in Pairs :
          CoefOfPair(e, p[1], p[2]) = ProductCoefOfPair(x, y, p[1], p[2])
    /\ \A w \in Witnesses :
          CoefOfWitness(e, w) =
              FAdd(FMul(y.q_c, CoefOfWitness(x, w)), FMul(x.q_c, CoefOfWitness(y, w)))
    /\ e.q_c = FMul(x.q_c, y.q_c)

\* C4: for a and b without bilinear terms mul(a, b) returns the full product:
\* the bilinear terms, both families of linear cross terms, the constant
MulIsProduct == pc = "done" => IsProduct(output, a, b)

\* C5: the merge loop of mul advances one of its two cursors in every iteration
MulLoopAdvances ==
    [][(pc = "loop" /\ pc' = "loop") => (i1' > i1 \/ i2' > i2)]_vars

\* C6: for purely linear a and b, mul(b, a) returns what mul(a, b) returned
MulCommutes ==
    pc = "done" => (mul(b, a).outcome = "returns" /\ mul(b, a).value = output)

\* the product of x and y has a term of degree 3 or more
NeedsDegree3(x, y) ==
    \/ x.mul_terms # <<>> /\ (y.mul_terms # <<>> \/ y.linear_combinations # <<>>)
    \/ y.mul_terms # <<>> /\ (x.mul_terms # <<>> \/ x.linear_combinations # <<>>)

\* C7: mul(a, b) aborts, and returns no expression, whenever the product would
\* need a term of degree greater than 2
MulRejectsDegree3 == (pc # "start" /\ NeedsDegree3(a, b)) => pc = "panic"

\* the abort on two operands that both hold a bilinear term
MulPanicWitness ==
    /\ pc = "panic"
    /\ a.mul_terms # <<>> /\ b.mul_terms # <<>>
    /\ a.linear_combinations # <<>>

----------------------------------------------------------------------------
(* GeneralOpt::optimise *)

\* longest bilinear-term list of a gate handed to the optimiser
MaxGateMul == 2
\* longest linear-term list of a gate handed to the optimiser
MaxGateLin == 1

RECURSIVE FilterNonZero(_)
FilterNonZero(s) ==
    IF s = <<>> THEN <<>>
    ELSE IF Head(s)[1] # FZero THEN <<Head(s)>> \o FilterNonZero(Tail(s))
    ELSE FilterNonZero(Tail(s))

\* Remove all terms with zero as a coefficient
remove_zero_coefficients(g) ==
    Arithmetic(FilterNonZero(g.mul_terms), FilterNonZero(g.linear_combinations), g.q_c)

\* `pair.sort()`
SortPair(w_l, w_r) == IF w_l <= w_r THEN <<w_l, w_r>> ELSE <<w_r, w_l>>

\* the BTreeMap after the terms j.. of m were entered: sorted pair -> summed scale
RECURSIVE CollectMulTerms(_, _, _)
CollectMulTerms(m, j, map) ==
    IF j > Len(m) THEN map
    ELSE LET key == SortPair(m[j][2], m[j][3])
             prev == IF key \in DOMAIN map THEN map[key] ELSE FZero
         IN CollectMulTerms(m, j + 1,
                [p \in DOMAIN map \cup {key} |->
                    IF p = key THEN FAdd(prev, m[j][1]) ELSE map[p]])

EmptyMap == [p \in {} |-> FZero]

\* Simplifies all mul terms with the same bi-variate variables
simplify_mul_terms(g) ==
    LET map == CollectMulTerms(g.mul_terms, 1, EmptyMap)
        keys == SortedPairs(DOMAIN map)
    IN Arithmetic([j \in 1 .. Len(keys) |-> <<map[keys[j]], keys[j][1], keys[j][2]>>],
                  g.linear_combinations, g.q_c)

optimise(g) == simplify_mul_terms(remove_zero_coefficients(g))

\* term lists of at most n terms, in any order, with any coefficient
RECURSIVE SeqsUpTo(_, _)
SeqsUpTo(T, n) ==
    IF n = 0 THEN {<<>>}
    ELSE LET shorter == SeqsUpTo(T, n - 1) IN
         shorter \cup {Append(q, t) : q \in shorter, t \in T}

Gates ==
    {Arithmetic(m, l, q) :
        m \in SeqsUpTo(Field \X Witnesses \X Witnesses, MaxGateMul),
        l \in SeqsUpTo(Field \X Witnesses, MaxGateLin),
        q \in Field}

InitOpt ==
    /\ pc = "start"
    /\ gate \in Gates
    /\ InitAlgIdle
    /\ InitGenIdle
    /\ InitCfgIdle
    /\ InitAcirIdle

Optimise ==
    /\ pc = "start"
    /\ output' = optimise(gate)
    /\ pc' = "optimised"
    /\ UNCHANGED <<a, b, c, k, output2, i1, i2, optVars, genVars, cfgVars, acirVars>>

NextOpt == Optimise
SpecOpt == InitOpt /\ [][NextOpt]_vars

UniqueUnorderedPairs(m) ==
    \A j1 \in 1 .. Len(m), j2 \in 1 .. Len(m) :
        j1 # j2 => {m[j1][2], m[j1][3]} # {m[j2][2], m[j2][3]}

\* C8: after optimise no two bilinear terms share an unordered witness pair and
\* no term has a zero coefficient
OptimiseIsCanonical ==
    pc = "optimised" =>
        /\ UniqueUnorderedPairs(output.mul_terms)
        /\ NoZeroCoef(output.mul_terms)
        /\ NoZeroCoef(output.linear_combinations)

----------------------------------------------------------------------------
(* IRGenerator: the node arena, constants and instructions *)

\* most nodes the arena is grown to
MaxNodes == 3

\* FieldElement::to_bytes yields a big-endian string of this many bytes
FieldBytes == 32

RECURSIVE Zeros(_)
Zeros(n) == IF n = 0 THEN <<>> ELSE <<0>> \o Zeros(n - 1)

\* the FieldElement whose big-endian magnitude is s, as to_bytes returns it
FieldElementOf(s) == Zeros(FieldBytes - Len(s)) \o s

\* `BigUint::from_bytes_be`: the magnitude, without leading zero bytes
RECURSIVE from_bytes_be(_)
from_bytes_be(bytes) ==
    IF bytes = <<>> THEN <<>>
    ELSE IF Head(bytes) = 0 THEN from_bytes_be(Tail(bytes))
    ELSE bytes

RECURSIVE BitLength(_)
BitLength(n) == IF n = 0 THEN 0 ELSE 1 + BitLength(n \div 2)

\* `x.num_bits()`
num_bits(x) ==
    LET m == from_bytes_be(x) IN
    IF m = <<>> THEN 0 ELSE 8 * (Len(m) - 1) + BitLength(Head(m))

\* the literals handed to new_constant and get_const: 1, 2^31, 2^64
ConstInputs ==
    {FieldElementOf(<<1>>), FieldElementOf(<<128, 0, 0, 0>>),
     FieldElementOf(<<1, 0, 0, 0, 0, 0, 0, 0, 0>>)}

Signed(n) == <<"Signed", n>>
Unsigned(n) == <<"Unsigned", n>>
NativeField == <<"NativeField", 0>>
\* the types handed to get_const
TypeInputs == {Unsigned(8), NativeField}
\* the result types handed to new_instruction
ResultTypeInputs == {NativeField}
\* the operators handed to new_instruction
OperationInputs == {"Add", "Cast"}

Handles == 1 .. Len(nodes)

\* a find_const that finds nothing
find_const_none(ns, value) == 0

\* the first Constant of the arena with this value (0: None)
find_const(ns, value) ==
    LET found == {h \in 1 .. Len(ns) : ns[h].kind = "Const" /\ ns[h].value = value}
    IN IF found = {} THEN 0 ELSE Min(found)

\* Add an object to the nodes arena and set its id
add_object(ns, ins, obj) ==
    LET idx == Len(ns) + 1 IN
    [nodes |-> Append(ns, IF obj.kind = "Instr" THEN [obj EXCEPT !.idx = idx]
                          ELSE [obj EXCEPT !.id = idx]),
     instructions |-> IF obj.kind = "Instr" THEN Append(ins, idx) ELSE ins,
     ret |-> idx]

Constant(v, t) == [kind |-> "Const", id |-> 0, value |-> v, value_type |-> t]

\* get_const: the arena, the block's list and the handle returned
get_const(ns, ins, x, t) ==
    LET value == from_bytes_be(x)
        obj == find_const(ns, value)
    IN IF obj # 0 THEN [nodes |-> ns, instructions |-> ins, ret |-> obj]
       ELSE add_object(ns, ins, Constant(value, t))

\* new_constant: as get_const with the type chosen from num_bits; "panic" is todo!()
new_constant(ns, ins, x) ==
    LET value == from_bytes_be(x)
        prev_const == find_const(ns, value)
    IN IF prev_const # 0
       THEN [nodes |-> ns, instructions |-> ins, ret |-> prev_const, panic |-> FALSE]
       ELSE IF num_bits(x) < 32
       THEN add_object(ns, ins, Constant(value, Signed(32))) @@ [panic |-> FALSE]
       ELSE IF num_bits(x) < 64
       THEN add_object(ns, ins, Constant(value, Signed(64))) @@ [panic |-> FALSE]
       ELSE [nodes |-> ns, instructions |-> ins, ret |-> 0, panic |-> TRUE]

\* an add_variable that makes the variable its own root
add_variable_own_root(ns, ins, root) ==
    [nodes |-> Append(ns, [kind |-> "Obj", id |-> Len(ns) + 1, root |-> Len(ns) + 1]),
     instructions |-> ins,
     ret |-> Len(ns) + 1]

\* add_variable
add_variable(ns, ins, root) ==
    [nodes |-> Append(ns, [kind |-> "Obj", id |-> Len(ns) + 1, root |-> root]),
     instructions |-> ins,
     ret |-> Len(ns) + 1]

\* `node::Instruction::new(opcode, lhs, rhs, optype, ..)`
Instruction(opcode, lhs, rhs, optype) ==
    [kind |-> "Instr", idx |-> 0, operator |-> opcode, lhs |-> lhs, rhs |-> rhs,
     res_type |-> optype, is_deleted |-> FALSE]

\* optim::simplify: the instruction is left as it is, or it is proved a no-op
\* that reduces to one of its operands, and marked deleted with that operand
\* as its rhs
simplify(i) ==
    {i} \cup {[i EXCEPT !.is_deleted = TRUE, !.rhs = h] : h \in {i.lhs, i.rhs}}

\* a new_instruction that inserts whatever the simplifier says
new_instruction_always_inserts(ns, ins, i) == add_object(ns, ins, i)

\* new_instruction, from the simplified instruction i on
new_instruction(ns, ins, i) ==
    IF i.is_deleted THEN [nodes |-> ns, instructions |-> ins, ret |-> i.rhs]
    ELSE add_object(ns, ins, i)

InitGen ==
    /\ pc = "build"
    /\ InitAlgIdle
    /\ InitOptIdle
    /\ InitGenIdle
    /\ InitCfgIdle
    /\ InitAcirIdle

NewConstant ==
    /\ pc = "build"
    /\ Len(nodes) < MaxNodes
    /\ \E x \in ConstInputs :
        LET r == new_constant(nodes, instructions, x) IN
        /\ nodes' = r.nodes
        /\ instructions' = r.instructions
        /\ ret' = r.ret
        /\ call' = [op |-> "new_constant", x |-> x]
        /\ pc' = IF r.panic THEN "panic" ELSE pc
    /\ UNCHANGED <<algVars, optVars, cfgVars, acirVars>>

GetConst ==
    /\ pc = "build"
    /\ Len(nodes) < MaxNodes
    /\ \E x \in ConstInputs, t \in TypeInputs :
        LET r == get_const(nodes, instructions, x, t) IN
        /\ nodes' = r.nodes
        /\ instructions' = r.instructions
        /\ ret' = r.ret
        /\ call' = [op |-> "get_const", x |-> x, t |-> t]
    /\ UNCHANGED <<pc, algVars, optVars, cfgVars, acirVars>>

AddVariable ==
    /\ pc = "build"
    /\ Len(nodes) < MaxNodes
    /\ LET r == add_variable(nodes, instructions, 0) IN
        /\ nodes' = r.nodes
        /\ instructions' = r.instructions
        /\ ret' = r.ret
    /\ call' = [op |-> "add_variable"]
    /\ UNCHANGED <<pc, algVars, optVars, cfgVars, acirVars>>

NewInstruction ==
    /\ pc = "build"
    /\ Len(nodes) < MaxNodes
    /\ \E lhs \in Handles, rhs \in Handles, opcode \in OperationInputs,
          optype \in ResultTypeInputs :
        \E i \in simplify(Instruction(opcode, lhs, rhs, optype)) :
            LET r == new_instruction(nodes, instructions, i) IN
            /\ nodes' = r.nodes
            /\ instructions' = r.instructions
            /\ ret' = r.ret
            /\ call' = [op |-> "new_instruction", lhs |-> lhs, rhs |-> rhs,
                        is_deleted |-> i.is_deleted]
    /\ UNCHANGED <<pc, algVars, optVars, cfgVars, acirVars>>

NextGen == NewConstant \/ GetConst \/ AddVariable \/ NewInstruction
SpecGen == InitGen /\ [][NextGen]_vars

ConstantsOf(ns) == {h \in 1 .. Len(ns) : ns[h].kind = "Const"}
NoDuplicateConstants(ns) ==
    \A h1 \in ConstantsOf(ns), h2 \in ConstantsOf(ns) :
        h1 # h2 => ns[h1].value # ns[h2].value

\* C9: no two Constant nodes of the arena hold the same value: a new_constant or
\* get_const call whose value is present returns the existing constant's handle
\* and adds no node
ConstantsDeduplicated ==
    [][/\ NoDuplicateConstants(nodes')
       /\ (call'.op \in {"new_constant", "get_const"} /\ pc' # "panic") =>
            LET present == {h \in ConstantsOf(nodes) :
                               nodes[h].value = from_bytes_be(call'.x)}
            IN present # {} => (nodes' = nodes /\ ret' \in present)]_vars

\* a get_const whose value new_constant had entered: the earlier handle comes back
ConstantReusedWitness ==
    /\ call.op = "get_const"
    /\ ret # 0 /\ ret < Len(nodes)
    /\ nodes[ret].kind = "Const"
    /\ nodes[ret].value = from_bytes_be(call.x)
    /\ nodes[ret].value_type = Signed(64)

\* C10: when the simplifier marks the new instruction a no-op, new_instruction
\* returns an operand handle and leaves the arena and the block's list unchanged
NoOpInstructionNotInserted ==
    [][(call'.op = "new_instruction" /\ call'.is_deleted) =>
          /\ ret' \in {call'.lhs, call'.rhs}
          /\ nodes' = nodes
          /\ instructions' = instructions]_vars

\* a no-op whose operands differ, built after an instruction was inserted
NoOpInstructionWitness ==
    /\ call.op = "new_instruction" /\ call.is_deleted
    /\ call.lhs # call.rhs
    /\ ret = call.lhs
    /\ instructions # <<>>

----------------------------------------------------------------------------
(* IRGenerator: statements, expressions and the blocks of a for loop *)

\* most statements of the program, those of loop bodies included
MaxStmts == 3
\* most blocks the builder creates
MaxBlocks == 7

\* IRGenerator::dummy(): the handle of no node
dummy == -1

Boolean == <<"Boolean", 0>>
NotAnObject == <<"NotAnObject", 0>>

\* the operators the simplifier can prove to be no-ops: arithmetic and casts
SimplifiableOperations == {"Add", "Cast"}
SimplifyChoices == {"keep", "lhs", "rhs"}

\* the member of simplify(i) that choice s names
simplified(i, s) ==
    IF s = "keep" \/ i.operator \notin SimplifiableOperations THEN i
    ELSE [i EXCEPT !.is_deleted = TRUE, !.rhs = IF s = "lhs" THEN i.lhs ELSE i.rhs]

\* block::BasicBlock::new
BasicBlock(kind, pred) ==
    [kind |-> kind, left |-> 0, right |-> 0, predecessor |-> pred,
     instructions |-> <<>>, value_array |-> <<>>]

\* BasicBlock::update_variable: the current value of a variable in the block
update_variable(blk, var, val) ==
    [blk EXCEPT !.value_array = (var :> val) @@ @]

\* the builder as one value: g.ret is the handle the latest call returned
Builder(ns, bs, cb, sb) ==
    [nodes |-> ns, blocks |-> bs, current_block |-> cb, sealed_blocks |-> sb,
     ret |-> 0, panic |-> FALSE]

\* an arena operation (new_constant, get_const, new_instruction, ..) applied
\* to the builder: the instruction list is the current block's
OnArena(g, r) ==
    [g EXCEPT !.nodes = r.nodes,
              !.blocks[g.current_block].instructions = r.instructions,
              !.ret = r.ret]

CurrentInstructions(g) == g.blocks[g.current_block].instructions

\* new_instruction(lhs, rhs, opcode, optype), the simplifier choosing s
NewInstructionIn(g, lhs, rhs, opcode, optype, s) ==
    OnArena(g, new_instruction(g.nodes, CurrentInstructions(g),
                               simplified(Instruction(opcode, lhs, rhs, optype), s)))

\* block::new_sealed_block / block::new_unsealed_block: the new block follows
\* the current one, becomes the current block and starts with a Nop
new_block(g, kind, sealed) ==
    LET idx == Len(g.blocks) + 1
        g1 == [g EXCEPT !.blocks = Append([g.blocks EXCEPT ![g.current_block].left = idx],
                                          BasicBlock(kind, <<g.current_block>>)),
                        !.current_block = idx,
                        !.sealed_blocks = IF sealed THEN @ \cup {idx} ELSE @]
    IN [NewInstructionIn(g1, dummy, dummy, "Nop", NotAnObject, "keep") EXCEPT !.ret = idx]

new_sealed_block(g, kind) == new_block(g, kind, TRUE)
new_unsealed_block(g, kind) == new_block(g, kind, FALSE)

\* BasicBlock::get_first_instruction
get_first_instruction(blk) == blk.instructions[1]

\* NodeObj::get_type
get_object_type(ns, h) ==
    IF ns[h].kind = "Const" THEN ns[h].value_type
    ELSE IF ns[h].kind = "Instr" THEN ns[h].res_type
    ELSE ns[h].obj_type

\* get_as_constant(idx) is Some
get_as_constant_is_some(ns, h) == ns[h].kind = "Const"

\* node::to_operation
to_operation(op) == IF op = "Assign" THEN "Ass" ELSE op

\* the literals of the program
LiteralInputs == {FieldElementOf(<<1>>)}
\* the expressions of the program: a literal, or an element arr[1] of the array
ExprInputs ==
    {[kind |-> "Literal", x |-> x] : x \in LiteralInputs}
        \cup {[kind |-> "Index", x |-> FieldElementOf(<<1>>)]}
\* the binary operators of the program
BinaryOpInputs == {"Add", "Assign"}
\* the choices the simplifier has for the instruction of a binary operator
OpChoices(op) ==
    IF to_operation(op) \in SimplifiableOperations THEN SimplifyChoices ELSE {"keep"}

\* the base address of the array arr, and the type of its elements
array_adr == FieldElementOf(<<>>)
array_element_type == NativeField

\* expression_to_object, for a literal and for an indexed expression (whose
\* address computation the simplifier keeps)
expression_to_object(g, e) ==
    IF e.kind = "Literal"
    THEN LET r == new_constant(g.nodes, CurrentInstructions(g), e.x)
         IN [OnArena(g, r) EXCEPT !.panic = r.panic]
    ELSE LET ri == new_constant(g.nodes, CurrentInstructions(g), e.x)
             g1 == [OnArena(g, ri) EXCEPT !.panic = ri.panic]
             index_as_obj == g1.ret
             g2 == OnArena(g1, get_const(g1.nodes, CurrentInstructions(g1),
                                         array_adr, Unsigned(32)))
             base_adr == g2.ret
             g3 == NewInstructionIn(g2, base_adr, index_as_obj, "Add", Unsigned(32), "keep")
             adr_id == g3.ret
         IN NewInstructionIn(g3, adr_id, adr_id, "Load", array_element_type, "keep")

\* the assignment whose left side is a Load instruction
IsLoad(ns, lhs) == ns[lhs].kind = "Instr" /\ ns[lhs].operator = "Load"

\* the Load is made a Store of rhs
make_store(ns, lhs, rhs) ==
    [ns EXCEPT ![lhs].operator = "Store", ![lhs].lhs = rhs]

\* evaluate_infix_expression
evaluate_infix_expression(g, lhs, rhs, op, s) ==
    LET ltype == get_object_type(g.nodes, lhs)
        opcode == to_operation(op)
        optype == ltype
    IN IF opcode = "Ass" /\ IsLoad(g.nodes, lhs)
       THEN [g EXCEPT !.nodes = make_store(g.nodes, lhs, rhs), !.ret = lhs]
       ELSE NewInstructionIn(g, lhs, rhs, opcode, optype, s)

\* the phis of a block for a root variable
PhisOf(g, target_block, root) ==
    {j \in 1 .. Len(g.blocks[target_block].instructions) :
        LET h == g.blocks[target_block].instructions[j] IN
        /\ g.nodes[h].kind = "Instr"
        /\ g.nodes[h].operator = "Phi"
        /\ g.nodes[h].rhs = root}

\* Vec::insert(1, x)
InsertSecond(seq, x) == <<Head(seq), x>> \o Tail(seq)

\* generate_empty_phi
generate_empty_phi(g, target_block, root) ==
    LET found == PhisOf(g, target_block, root) IN
    IF found # {}
    THEN [g EXCEPT !.ret = g.blocks[target_block].instructions[Min(found)]]
    ELSE LET v_type == get_object_type(g.nodes, root)
             phi_id == Len(g.nodes) + 1
             new_phi == [Instruction("Phi", root, root, v_type) EXCEPT !.idx = phi_id]
         IN [g EXCEPT !.nodes = Append(@, new_phi),
                      !.blocks[target_block].instructions = InsertSecond(@, phi_id),
                      !.ret = phi_id]

\* the current value of a variable at the end of a block (the variable itself
\* when the block holds none)
get_current_value(g, blk, root) ==
    IF root \in DOMAIN g.blocks[blk].value_array
    THEN g.blocks[blk].value_array[root] ELSE root

\* the incoming values of a phi: one per predecessor, in predecessor order
phi_arguments(g, blk, root) ==
    [j \in 1 .. Len(g.blocks[blk].predecessor) |->
        <<get_current_value(g, g.blocks[blk].predecessor[j], root),
          g.blocks[blk].predecessor[j]>>]

\* ssa_form::seal_block: the block is sealed and its phis are completed
seal_block(g, blk) ==
    [g EXCEPT !.sealed_blocks = @ \cup {blk},
              !.nodes = [h \in DOMAIN g.nodes |->
                            IF /\ g.nodes[h].kind = "Instr"
                               /\ g.nodes[h].operator = "Phi"
                               /\ \E j \in DOMAIN g.blocks[blk].instructions :
                                      g.blocks[blk].instructions[j] = h
                            THEN g.nodes[h] @@
                                 [phi_arguments |-> phi_arguments(g, blk, g.nodes[h].rhs)]
                            ELSE g.nodes[h]]]

\* block::link_with_target: the successors of a block
link_with_target(g, target, left, right) ==
    [g EXCEPT !.blocks[target].left = left, !.blocks[target].right = right]

\* the rhs of the loop's conditional jump, a dummy so far, becomes the body
\* block with its lhs changed instead
fix_jump_lhs(ns, to_fix, body_idx) == [ns EXCEPT ![to_fix].lhs = body_idx]

\* the rhs of the loop's conditional jump, a dummy so far, becomes the body
fix_jump(ns, to_fix, body_idx) == [ns EXCEPT ![to_fix].rhs = body_idx]

\* the builder of the current state
G == Builder(nodes, blocks, current_block, sealed_blocks)

\* the builder becomes g
BuilderBecomes(g) ==
    /\ nodes' = g.nodes
    /\ blocks' = g.blocks
    /\ current_block' = g.current_block
    /\ sealed_blocks' = g.sealed_blocks
    /\ ret' = g.ret

\* one more statement of the innermost statement block is done
StatementDone(ls) == <<[Head(ls) EXCEPT !.stmt = @ + 1]>> \o Tail(ls)

\* the statements evaluated or under evaluation so far
RECURSIVE StatementsOf(_)
StatementsOf(ls) == IF ls = <<>> THEN 0 ELSE Head(ls).stmt + StatementsOf(Tail(ls))

\* IRGenerator::new and block::create_first_block: one sealed block that
\* holds a Nop; evaluate_main is about to evaluate main's statements
InitFor ==
    /\ pc = "body"
    /\ InitAlgIdle
    /\ InitOptIdle
    /\ InitAcirIdle
    /\ nodes = <<[Instruction("Nop", dummy, dummy, NotAnObject) EXCEPT !.idx = 1]>>
    /\ instructions = <<>>
    /\ call = NoCall
    /\ ret = 0
    /\ blocks = <<[BasicBlock("Normal", <<>>) EXCEPT !.instructions = <<1>>]>>
    /\ current_block = 1
    /\ sealed_blocks = {1}
    /\ loops = <<[fn |-> "evaluate_main", stmt |-> 0]>>

\* evaluate_statement of an infix expression statement: e1 op e2
EvalInfix ==
    /\ pc = "body"
    /\ StatementsOf(loops) < MaxStmts
    /\ \E e1 \in ExprInputs, e2 \in ExprInputs, op \in BinaryOpInputs :
      \E s \in OpChoices(op) :
        LET g1 == expression_to_object(G, e1)
            g2 == expression_to_object(g1, e2)
        IN /\ BuilderBecomes(evaluate_infix_expression(g2, g1.ret, g2.ret, op, s))
           /\ call' = [op |-> "infix", lhs |-> g1.ret, rhs |-> g2.ret,
                       operator |-> to_operation(op)]
    /\ loops' = StatementDone(loops)
    /\ UNCHANGED <<pc, algVars, optVars, instructions, acirVars>>

\* handle_for_expr up to the evaluation of the body (lines 945-1017): the
\* builder, and the handles the rest of the call uses
for_blocks(g2, start_idx, end_idx) ==
    LET iter_type == Unsigned(32)
        iter_id == Len(g2.nodes) + 1
        g3 == [g2 EXCEPT !.nodes = Append(@, [kind |-> "Obj", id |-> iter_id,
                                              root |-> 0, obj_type |-> iter_type])]
        g4 == NewInstructionIn(g3, iter_id, start_idx, "Ass", iter_type, "keep")
        g5 == [g4 EXCEPT !.blocks[g4.current_block] = update_variable(@, iter_id, start_idx)]
        g6 == new_unsealed_block(g5, "ForJoin")
        join_idx == g6.ret
        g7 == new_sealed_block(g6, "Normal")
        exit_id == g7.ret
        g8 == [g7 EXCEPT !.current_block = join_idx]
        g9 == generate_empty_phi(g8, join_idx, iter_id)
        phi == g9.ret
        g10 == [g9 EXCEPT !.blocks[g9.current_block] = update_variable(@, iter_id, phi)]
        g11 == NewInstructionIn(g10, phi, end_idx, "Ne", Boolean, "keep")
        cond == g11.ret
        g12 == NewInstructionIn(g11, cond, dummy, "Jeq", NotAnObject, "keep")
        to_fix == g12.ret
        g13 == new_sealed_block(g12, "Normal")
        body_idx == g13.ret
        g14 == [g13 EXCEPT !.blocks[body_idx] = update_variable(@, iter_id, phi)]
    IN [g |-> g14,
        frame |-> [fn |-> "handle_for_expr", stmt |-> 0, join_idx |-> join_idx,
                   exit_id |-> exit_id, body_idx |-> body_idx, iter_id |-> iter_id,
                   iter_type |-> iter_type, phi |-> phi, to_fix |-> to_fix]]

\* handle_for_expr, from its entry to the body: the bounds are evaluated, a
\* start that is no constant panics, else the join, exit and body blocks are built
ForEnter ==
    /\ pc = "body"
    /\ StatementsOf(loops) < MaxStmts
    /\ Len(blocks) + 3 <= MaxBlocks
    /\ \E start_range \in ExprInputs, end_range \in ExprInputs :
        LET g1 == expression_to_object(G, start_range)
            start_idx == g1.ret
            g2 == expression_to_object(g1, end_range)
            end_idx == g2.ret
            r == for_blocks(g2, start_idx, end_idx)
        IN /\ call' = [op |-> "handle_for_expr", start_idx |-> start_idx,
                       end_idx |-> end_idx]
           /\ IF get_as_constant_is_some(g2.nodes, start_idx)
              THEN /\ BuilderBecomes(r.g)
                   /\ loops' = <<r.frame>> \o StatementDone(loops)
                   /\ pc' = "body"
              ELSE /\ BuilderBecomes(g2)
                   /\ pc' = "panic"
                   /\ UNCHANGED loops
    /\ UNCHANGED <<algVars, optVars, instructions, acirVars>>

\* the block that ends the body gets the join block as left successor, and is
\* not entered in the join block's predecessors
jump_back_unlisted(bs, cur_block_id, join_idx) ==
    [bs EXCEPT ![cur_block_id].left = join_idx]

\* the block that ends the body gets the join block as left successor and is
\* appended to the join block's predecessors
jump_back(bs, cur_block_id, join_idx) ==
    [bs EXCEPT ![cur_block_id].left = join_idx,
               ![join_idx].predecessor = Append(@, cur_block_id)]

\* handle_for_expr, lines 1023-1040: the iterator is incremented and the block
\* that ends the body jumps back to the join block
ForBackEdge ==
    /\ pc = "body"
    /\ Head(loops).fn = "handle_for_expr"
    /\ \E s \in SimplifyChoices :
        LET f == Head(loops)
            g1 == OnArena(G, get_const(nodes, CurrentInstructions(G),
                                       FieldElementOf(<<FOne>>), f.iter_type))
            one == g1.ret
            g2 == NewInstructionIn(g1, f.phi, one, "Add", f.iter_type, s)
            incr == g2.ret
            cur_block_id == g2.current_block
            g3 == [g2 EXCEPT !.blocks[cur_block_id] = update_variable(@, f.iter_id, incr)]
            g4 == [g3 EXCEPT !.blocks = jump_back(@, cur_block_id, f.join_idx)]
            g5 == NewInstructionIn(g4, dummy, get_first_instruction(g4.blocks[f.join_idx]),
                                   "Jmp", NotAnObject, "keep")
        IN /\ BuilderBecomes(g5)
           /\ call' = [op |-> "back_edge", block |-> cur_block_id]
    /\ pc' = "wired"
    /\ UNCHANGED <<loops, algVars, optVars, instructions, acirVars>>

\* handle_for_expr, line 1042: the join block is sealed
ForSeal ==
    /\ pc = "wired"
    /\ BuilderBecomes(seal_block(G, Head(loops).join_idx))
    /\ call' = [op |-> "seal_block", block |-> Head(loops).join_idx]
    /\ pc' = "sealed"
    /\ UNCHANGED <<loops, algVars, optVars, instructions, acirVars>>

\* handle_for_expr, lines 1044-1051: the exit block becomes the current block,
\* the join block is linked and its conditional jump is given the body
ForExit ==
    /\ pc = "sealed"
    /\ LET f == Head(loops)
           g1 == [G EXCEPT !.current_block = f.exit_id]
           exit_first == get_first_instruction(g1.blocks[g1.current_block])
           g2 == link_with_target(g1, f.join_idx, f.exit_id, f.body_idx)
           g3 == [g2 EXCEPT !.nodes = fix_jump(@, f.to_fix, f.body_idx), !.ret = exit_first]
       IN BuilderBecomes(g3)
    /\ call' = [op |-> "for_exit", to_fix |-> Head(loops).to_fix]
    /\ loops' = <<[loops[2] EXCEPT !.stmt = @ + Head(loops).stmt]>> \o Tail(Tail(loops))
    /\ pc' = "body"
    /\ UNCHANGED <<algVars, optVars, instructions, acirVars>>

NextFor == EvalInfix \/ ForEnter \/ ForBackEdge \/ ForSeal \/ ForExit
SpecFor == InitFor /\ [][NextFor]_vars

InstructionsOf(ns) == {h \in 1 .. Len(ns) : ns[h].kind = "Instr"}

\* operator and operand handles of instruction h are what they were
SameInstruction(h) ==
    /\ nodes'[h].operator = nodes[h].operator
    /\ nodes'[h].lhs = nodes[h].lhs
    /\ nodes'[h].rhs = nodes[h].rhs

LoopsUnderWay == {j \in 1 .. Len(loops) : loops[j].fn = "handle_for_expr"}

Last(seq) == seq[Len(seq)]

\* C12: the join block of a loop is unsealed while the statements of the body
\* are evaluated, and it is sealed only when the block that ends the body has
\* the join block as left successor, is the last of the join block's
\* predecessors and ends with the jump back
JoinSealedAfterBackEdge ==
    [][/\ (pc = "body" /\ call'.op \in {"infix", "handle_for_expr"}) =>
            \A j \in LoopsUnderWay :
                /\ loops[j].join_idx \notin sealed_blocks
                /\ loops[j].join_idx \notin sealed_blocks'
       /\ \A blk \in sealed_blocks' \ sealed_blocks :
            blocks'[blk].kind = "ForJoin" =>
                /\ blk = Head(loops).join_idx
                /\ blocks[current_block].left = blk
                /\ Len(blocks[blk].predecessor) = 2
                /\ Last(blocks[blk].predecessor) = current_block
                /\ nodes[Last(blocks[current_block].instructions)].operator = "Jmp"
                /\ nodes[Last(blocks[current_block].instructions)].rhs =
                       get_first_instruction(blocks[blk])]_vars

\* the join block of a loop has been sealed whose body held a loop and a
\* statement after it: the body ends in the inner loop's exit block
JoinSealedWitness ==
    /\ pc = "sealed"
    /\ Len(loops) = 2
    /\ Head(loops).stmt = 2
    /\ Head(loops).join_idx \in sealed_blocks
    /\ Last(blocks[Head(loops).join_idx].predecessor) # Head(loops).body_idx
    /\ Len(blocks) = 7

\* C13: a handle_for_expr whose start bound or end bound is no constant
\* panics and builds no block
ForFailsFastOnDynamicBounds ==
    [][(/\ call'.op = "handle_for_expr"
        /\ \/ ~get_as_constant_is_some(nodes', call'.start_idx)
           \/ ~get_as_constant_is_some(nodes', call'.end_idx)) =>
            (pc' = "panic" /\ Len(blocks') = Len(blocks))]_vars

----------------------------------------------------------------------------
(* Acir: the helpers of the lowering, on the evaluator's gates and witnesses *)

\* FieldElement::max_num_bits(): the bits of the modulus
max_num_bits == BitLength(FieldModulus - 1)

\* FieldElement::from_be_bytes_reduce
RECURSIVE BytesReduce(_, _)
BytesReduce(bytes, acc) ==
    IF bytes = <<>> THEN acc
    ELSE BytesReduce(Tail(bytes), (acc * 256 + Head(bytes)) % FieldModulus)
from_be_bytes_reduce(bytes) == BytesReduce(bytes, 0)

\* FieldElement::from(2).pow(n)
RECURSIVE FPow2(_)
FPow2(n) == IF n = 0 THEN FOne ELSE FMul(2 % FieldModulus, FPow2(n - 1))

\* 1 << n, on integers
RECURSIVE Pow2(_)
Pow2(n) == IF n = 0 THEN 1 ELSE 2 * Pow2(n - 1)

\* InternalVar: witness 0 and idx 0 stand for None
InternalVar(expression, witness, idx) ==
    [expression |-> expression, witness |-> witness, idx |-> idx]

from_witness(witness) == Arithmetic(<<>>, <<<<FOne, witness>>>>, FZero)

boolean(witness) ==
    Arithmetic(<<<<FOne, witness, witness>>>>, <<<<FNeg(FOne), witness>>>>, FZero)

is_const(expr) == expr.mul_terms = <<>> /\ expr.linear_combinations = <<>>

\* InternalVar::is_equal
is_equal(x, y) ==
    \/ (x.idx # 0 /\ x.idx = y.idx)
    \/ (x.witness # 0 /\ x.witness = y.witness)
    \/ x.expression = y.expression

\* `&expr * &f`
Scale(expr, f) == add(ArithmeticDefault, f, expr)

\* `&x - &y`
Minus(x, y) == add(x, FNeg(FOne), y)

\* the evaluator: its gates, its witness counter, and whether a todo!() was hit
Evaluator(gs, cwi) == [gates |-> gs, current_witness_index |-> cwi, todo |-> FALSE]

\* Evaluator::add_witness_to_cs: the next witness is current_witness_index
add_witness_to_cs(ev) == [ev EXCEPT !.current_witness_index = @ + 1]

\* a push at the front of the gate list
PushFront(ev, g) == [ev EXCEPT !.gates = <<g>> \o @]

\* evaluator.gates.push(g)
Push(ev, g) == [ev EXCEPT !.gates = Append(@, g)]

ArithmeticGate(expr) == [gate |-> "Arithmetic", expr |-> expr]
RangeGate(w, n) == [gate |-> "Range", w |-> w, bits |-> n]

\* Evaluator::create_intermediate_variable: a fresh witness constrained to
\* equal the expression
create_intermediate_variable(ev, expr) ==
    LET ev1 == add_witness_to_cs(ev)
        w == ev1.current_witness_index
    IN Push(ev1, ArithmeticGate(Minus(expr, from_witness(w))))

\* generate_witness: the evaluator after the call; the witness is
\* WitnessOf(lhs, ev)
generate_witness(lhs, ev) ==
    IF lhs.witness # 0 THEN ev
    ELSE IF is_const(lhs.expression) THEN [ev EXCEPT !.todo = TRUE]
    ELSE create_intermediate_variable(ev, lhs.expression)

WitnessOf(lhs, ev) ==
    IF lhs.witness # 0 THEN lhs.witness ELSE generate_witness(lhs, ev).current_witness_index

\* a range_constraint without the split of the odd widths
range_constraint_unsplit(witness, nbits, ev) ==
    IF nbits = 1
    THEN [ev |-> Push(ev, ArithmeticGate(boolean(witness))), err |-> FALSE]
    ELSE IF nbits = max_num_bits
    THEN [ev |-> ev, err |-> TRUE]
    ELSE [ev |-> Push(ev, RangeGate(witness, nbits)), err |-> FALSE]

\* range_constraint: the evaluator after the call, and whether Err came back
RECURSIVE range_constraint(_, _, _)
range_constraint(witness, nbits, ev) ==
    IF nbits = 1
    THEN [ev |-> Push(ev, ArithmeticGate(boolean(witness))), err |-> FALSE]
    ELSE IF nbits = max_num_bits
    THEN [ev |-> ev, err |-> TRUE]
    ELSE IF nbits % 2 = 1
    THEN LET ev1 == add_witness_to_cs(ev)
             r_witness == ev1.current_witness_index
             ev2 == add_witness_to_cs(ev1)
             b_witness == ev2.current_witness_index
             ev3 == Push(ev2, [gate |-> "Directive", name |-> "Oddrange",
                               a |-> witness, b |-> b_witness, r |-> r_witness,
                               bit_size |-> nbits])
             ev4 == range_constraint(r_witness, nbits - 1, ev3).ev
             ev5 == range_constraint(b_witness, 1, ev4).ev
             f == FPow2(nbits - 1)
             res == add(from_witness(r_witness), f, from_witness(b_witness))
             my_constraint == add(res, FNeg(FOne), from_witness(witness))
         IN [ev |-> Push(ev5, ArithmeticGate(my_constraint)), err |-> FALSE]
    ELSE [ev |-> Push(ev, RangeGate(witness, nbits)), err |-> FALSE]

\* bound_check(a, b, strict, bits)
bound_check(x, y, strict, bits, ev) ==
    IF bits > max_num_bits - 1 THEN [ev EXCEPT !.todo = TRUE]
    ELSE LET offset == IF strict THEN FOne ELSE FZero
             sub0 == add(y.expression, FNeg(FOne), x.expression)
             sub_expression == [sub0 EXCEPT !.q_c = FAdd(@, offset)]
             ev1 == add_witness_to_cs(ev)
             w == ev1.current_witness_index
             ev2 == Push(ev1, ArithmeticGate(Minus(sub_expression, from_witness(w))))
         IN range_constraint(w, bits, ev2).ev

\* evaluate_truncate(lhs, rhs, max_bits), max_bits > rhs
evaluate_truncate(lhs, rhs, max_bits, ev) ==
    LET ev0 == generate_witness(lhs, ev)
        a_witness == WitnessOf(lhs, ev)
        ev1 == add_witness_to_cs(ev0)
        b_witness == ev1.current_witness_index
        ev2 == add_witness_to_cs(ev1)
        c_witness == ev2.current_witness_index
        ev3 == Push(ev2, [gate |-> "Directive", name |-> "Truncate", a |-> a_witness,
                          b |-> b_witness, c |-> c_witness, bit_size |-> rhs])
        ev4 == range_constraint(b_witness, rhs, ev3).ev
        ev5 == range_constraint(c_witness, max_bits - rhs, ev4).ev
        res == add(from_witness(b_witness), FPow2(rhs), from_witness(c_witness))
        my_constraint == add(res, FNeg(FOne), from_witness(a_witness))
    IN [ev |-> Push(ev5, ArithmeticGate(my_constraint)),
        out |-> from_witness(b_witness)]

\* the bit size evaluate_udiv hands to bound_check and range_constraint: 32 in
\* the source, where the field has 254 bits; scaled with the field, so that
\* q*b + r stays below the modulus
UdivBits == 2

\* evaluate_udiv(lhs, rhs): the evaluator and the witnesses (q, r)
evaluate_udiv(lhs, rhs, ev) ==
    LET ev0 == generate_witness(lhs, ev)
        a_witness == WitnessOf(lhs, ev)
        ev1 == generate_witness(rhs, ev0)
        b_witness == WitnessOf(rhs, ev0)
        ev2 == add_witness_to_cs(ev1)
        q_witness == ev2.current_witness_index
        ev3 == add_witness_to_cs(ev2)
        r_witness == ev3.current_witness_index
        ev4 == Push(ev3, [gate |-> "Directive", name |-> "Quotient", a |-> a_witness,
                          b |-> b_witness, q |-> q_witness, r |-> r_witness])
        r_var == InternalVar(from_witness(r_witness), r_witness, 0)
        ev5 == bound_check(r_var, rhs, TRUE, UdivBits, ev4)
        ev6 == range_constraint(q_witness, UdivBits, ev5).ev
        div_eucl == add(lhs.expression, FNeg(FOne),
                        Arithmetic(<<<<FOne, b_witness, q_witness>>>>,
                                   <<<<FOne, r_witness>>>>, FZero))
    IN [ev |-> Push(ev6, ArithmeticGate(div_eucl)), q |-> q_witness, r |-> r_witness]

BitwiseGate(name, x, y, result, bits) ==
    [gate |-> name, a |-> x, b |-> y, result |-> result, bits |-> bits]

\* evaluate_and(lhs, rhs, bit_size)
evaluate_and(lhs, rhs, bit_size, ev) ==
    LET ev1 == add_witness_to_cs(ev)
        result == ev1.current_witness_index
        ev2 == generate_witness(lhs, ev1)
        a_witness == WitnessOf(lhs, ev1)
        ev3 == generate_witness(rhs, ev2)
        b_witness == WitnessOf(rhs, ev2)
    IN [ev |-> Push(ev3, BitwiseGate("And", a_witness, b_witness, result, bit_size)),
        out |-> from_witness(result)]

\* evaluate_xor(lhs, rhs, bit_size): b is lhs's witness when lhs has one
evaluate_xor(lhs, rhs, bit_size, ev) ==
    LET ev1 == add_witness_to_cs(ev)
        result == ev1.current_witness_index
        ev2 == generate_witness(lhs, ev1)
        a_witness == WitnessOf(lhs, ev1)
        ev3 == IF lhs.witness # 0 THEN ev2 ELSE generate_witness(rhs, ev2)
        b_witness == IF lhs.witness # 0 THEN lhs.witness ELSE WitnessOf(rhs, ev2)
    IN [ev |-> Push(ev3, BitwiseGate("Xor", a_witness, b_witness, result, bit_size)),
        out |-> from_witness(result)]

\* an evaluate_mul that binds both operands to intermediate witnesses even when
\* they have no bilinear term
evaluate_mul_binds_operands(lhs, rhs, ev) ==
    LET ev1 == add_witness_to_cs(ev)
        wa == ev1.current_witness_index
        ev2 == Push(ev1, ArithmeticGate(Minus(lhs.expression, from_witness(wa))))
        ev3 == add_witness_to_cs(ev2)
        wb == ev3.current_witness_index
        ev4 == Push(ev3, ArithmeticGate(Minus(rhs.expression, from_witness(wb))))
        m == mul(from_witness(wa), from_witness(wb))
    IN [ev |-> ev4, out |-> m.value, outcome |-> m.outcome]

\* evaluate_mul(lhs, rhs): outcome is what mul does when it is called
evaluate_mul(lhs, rhs, ev) ==
    IF is_const(lhs.expression)
    THEN [ev |-> ev, out |-> Scale(rhs.expression, lhs.expression.q_c), outcome |-> "returns"]
    ELSE IF is_const(rhs.expression)
    THEN [ev |-> ev, out |-> Scale(lhs.expression, rhs.expression.q_c), outcome |-> "returns"]
    ELSE IF lhs.expression.mul_terms = <<>> /\ rhs.expression.mul_terms = <<>>
    THEN LET m == mul(lhs.expression, rhs.expression)
         IN [ev |-> ev, out |-> m.value, outcome |-> m.outcome]
    ELSE LET ev1 == add_witness_to_cs(ev)
             wa == ev1.current_witness_index
             ev2 == Push(ev1, ArithmeticGate(Minus(lhs.expression, from_witness(wa))))
             ev3 == IF is_equal(lhs, rhs) THEN ev2 ELSE add_witness_to_cs(ev2)
             wb == IF is_equal(lhs, rhs) THEN wa ELSE ev3.current_witness_index
             ev4 == IF is_equal(lhs, rhs) THEN ev3
                    ELSE Push(ev3, ArithmeticGate(Minus(rhs.expression, from_witness(wb))))
             m == mul(from_witness(wa), from_witness(wb))
         IN [ev |-> ev4, out |-> m.value, outcome |-> m.outcome]

----------------------------------------------------------------------------
(* Acir: substitute and evaluate_instruction, over the instructions of a block *)

\* most instructions of the block that is lowered
MaxInstrs == 2

\* ObjectType::bits
bits_of(t) ==
    IF t[1] \in {"Signed", "Unsigned"} THEN t[2]
    ELSE IF t[1] = "Boolean" THEN 1
    ELSE IF t[1] = "NativeField" THEN max_num_bits
    ELSE 0

\* NodeObj::bits
node_bits(ns, h) == bits_of(get_object_type(ns, h))

\* the lowering as one value: the two caches, and the evaluator
Lowering(cache, mm, ev) == [arith_cache |-> cache, memory_map |-> mm, ev |-> ev]

\* substitute that computes the InternalVar again when the cache holds one
substitute_uncached(idx, lo, ns) ==
    LET known == idx \in 1 .. Len(ns)
        ev1 == IF known /\ ns[idx].kind = "Const" THEN lo.ev
               ELSE IF known /\ ns[idx].kind = "Obj" /\ ns[idx].witness # 0 THEN lo.ev
               ELSE add_witness_to_cs(lo.ev)
        var == IF known /\ ns[idx].kind = "Const"
               THEN InternalVar(Arithmetic(<<>>, <<>>, from_be_bytes_reduce(ns[idx].value)),
                                0, idx)
               ELSE IF known /\ ns[idx].kind = "Obj" /\ ns[idx].witness # 0
               THEN InternalVar(from_witness(ns[idx].witness), ns[idx].witness, idx)
               ELSE InternalVar(from_witness(ev1.current_witness_index),
                                ev1.current_witness_index, idx)
    IN [lo |-> [lo EXCEPT !.arith_cache = (idx :> var) @@ @, !.ev = ev1], var |-> var]

\* substitute(idx): the lowering after the call and the InternalVar returned
substitute(idx, lo, ns) ==
    IF idx \in DOMAIN lo.arith_cache
    THEN [lo |-> lo, var |-> lo.arith_cache[idx]]
    ELSE substitute_uncached(idx, lo, ns)

\* an offset with k = floor(max_value / 2^bit_size)
sub_offset_floor(max_value, bit_size) ==
    (max_value \div Pow2(bit_size)) * Pow2(bit_size)

\* lhs - rhs + k*2^bit_size, k = ceil(max_value / 2^bit_size): the offset
sub_offset(max_value, bit_size) ==
    LET r_big == Pow2(bit_size)
        k0 == max_value \div r_big
        k1 == IF max_value % r_big # 0 THEN k0 + 1 ELSE k0
    IN k1 * r_big

\* the operators evaluate_instruction has no lowering for
InvalidOperations == {"Ass", "Jne", "Jeq", "Jmp", "Phi", "Ne", "Eq", "Div", "Not", "Or"}

Pointer(n) == <<"Pointer", n>>

\* cfg.mem.arrays: the program's one array, of three elements bound to the
\* witnesses 2, 3 and 4, at base address 0
mem_arrays == <<[adr |-> 0, element_type |-> Unsigned(8), witness |-> <<2, 3, 4>>]>>

\* prepare_inputs(pointer): "panic" is unreachable!("invalid input")
prepare_inputs(pointer, ns) ==
    LET t == get_object_type(ns, pointer)
    IN IF t[1] = "Pointer"
       THEN [inputs |-> [i \in DOMAIN mem_arrays[t[2]].witness |->
                            [witness |-> mem_arrays[t[2]].witness[i],
                             num_bits |-> bits_of(mem_arrays[t[2]].element_type)]],
             panic |-> FALSE]
       ELSE [inputs |-> <<>>, panic |-> TRUE]

RECURSIVE add_witnesses(_, _)
add_witnesses(ev, n) == IF n = 0 THEN ev ELSE add_witnesses(add_witness_to_cs(ev), n - 1)

\* prepare_outputs(pointer, output_nb): the witnesses are allocated, then the
\* match on the pointer's type has one arm, `_ => unreachable!("invalid output")`
prepare_outputs(pointer, output_nb, ns, ev) ==
    [ev |-> add_witnesses(ev, output_nb),
     outputs |-> [i \in 1 .. output_nb |-> ev.current_witness_index + i],
     panic |-> TRUE]

\* the number of output witnesses std_lib_sha256 asks for
Sha256Outputs == 32

GadgetCall(name, inputs, outputs) ==
    [gate |-> "GadgetCall", name |-> name, inputs |-> inputs, outputs |-> outputs]

\* std_lib_sha256(lhs): the evaluator, and whether the call panicked
std_lib_sha256(lhs, ns, ev) ==
    LET i == prepare_inputs(lhs.idx, ns)
        o == prepare_outputs(lhs.idx, Sha256Outputs, ns, ev)
    IN IF i.panic THEN [ev |-> ev, panic |-> TRUE]
       ELSE IF o.panic THEN [ev |-> o.ev, panic |-> TRUE]
       ELSE [ev |-> Push(o.ev, GadgetCall("SHA256", i.inputs, o.outputs)), panic |-> FALSE]

\* the operators StdLib(opcode) of the opcodes the model draws
StdLibOperations == {"StdLib(SHA256)", "StdLib(Blake2s)"}

\* the match of evaluate_instruction: the evaluator, the address map and the
\* output, from the InternalVars of the operands
evaluate_operator(ins, l_c, r_c, lo, ns) ==
    LET ev == lo.ev
        same(out) == [ev |-> ev, memory_map |-> lo.memory_map, out |-> out,
                      outcome |-> "returns"]
        with(r) == [ev |-> r.ev, memory_map |-> lo.memory_map, out |-> r.out,
                    outcome |-> IF r.ev.todo THEN "todo" ELSE "returns"]
        todo == [ev |-> ev, memory_map |-> lo.memory_map, out |-> ArithmeticDefault,
                 outcome |-> "todo"]
    IN CASE ins.operator = "Add" -> same(add(l_c.expression, FOne, r_c.expression))
         [] ins.operator = "Sub" ->
              LET f == sub_offset(ins.max_value, node_bits(ns, ins.rhs)) % FieldModulus
                  output0 == add(l_c.expression, FNeg(FOne), r_c.expression)
              IN same([output0 EXCEPT !.q_c = FAdd(@, f)])
         [] ins.operator = "Mul" ->
              LET r == evaluate_mul(l_c, r_c, ev)
              IN [ev |-> r.ev, memory_map |-> lo.memory_map, out |-> r.out,
                  outcome |-> r.outcome]
         [] ins.operator = "Udiv" ->
              LET r == evaluate_udiv(l_c, r_c, ev)
              IN with([ev |-> r.ev, out |-> from_witness(r.q)])
         [] ins.operator = "Urem" ->
              LET r == evaluate_udiv(l_c, r_c, ev)
              IN with([ev |-> r.ev, out |-> from_witness(r.r)])
         [] ins.operator = "And" ->
              with(evaluate_and(l_c, r_c, bits_of(ins.res_type), ev))
         [] ins.operator = "Xor" ->
              with(evaluate_xor(l_c, r_c, bits_of(ins.res_type), ev))
         [] ins.operator = "Cast" -> same(l_c.expression)
         [] ins.operator = "Trunc" ->
              with(evaluate_truncate(l_c, r_c.expression.q_c, ins.bit_size, ev))
         [] ins.operator = "EqGate" ->
              LET eq == add(l_c.expression, FNeg(FOne), r_c.expression)
              IN [ev |-> Push(ev, ArithmeticGate(eq)), memory_map |-> lo.memory_map,
                  out |-> eq, outcome |-> "returns"]
         [] ins.operator = "Store" ->
              IF is_const(r_c.expression)
              THEN [ev |-> ev, memory_map |-> (r_c.expression.q_c :> l_c) @@ lo.memory_map,
                    out |-> ArithmeticDefault, outcome |-> "returns"]
              ELSE todo
         [] ins.operator = "Load" ->
              IF is_const(l_c.expression)
              THEN LET address == l_c.expression.q_c
                       index == address - mem_arrays[1].adr
                   IN IF address \in DOMAIN lo.memory_map
                      THEN same(lo.memory_map[address].expression)
                      ELSE IF index + 1 \in DOMAIN mem_arrays[1].witness
                      THEN same(from_witness(mem_arrays[1].witness[index + 1]))
                      ELSE [ev |-> ev, memory_map |-> lo.memory_map,
                            out |-> ArithmeticDefault, outcome |-> "panic"]
              ELSE todo
         [] ins.operator \in StdLibOperations ->
              IF ins.operator = "StdLib(SHA256)"
              THEN LET r == std_lib_sha256(l_c, ns, ev)
                   IN [ev |-> r.ev, memory_map |-> lo.memory_map, out |-> ArithmeticDefault,
                       outcome |-> IF r.panic THEN "panic" ELSE "returns"]
              ELSE todo
         [] ins.operator \in InvalidOperations -> todo

\* a variable of the arena, bound to a witness (0: None)
Variable(id, t, w) == [kind |-> "Obj", id |-> id, root |-> 0, obj_type |-> t, witness |-> w]

\* an instruction of the arena with the fields the lowering reads
LowerInstruction(idx, opcode, lhs, rhs, optype, max_value, bit_size) ==
    [Instruction(opcode, lhs, rhs, optype) EXCEPT !.idx = idx]
        @@ [max_value |-> max_value, bit_size |-> bit_size]

\* the arena before the instructions that are drawn: the Nop that opens the
\* block, a variable x that holds witness 1, a variable y that holds none,
\* and the constant 2
Nop == 1
x_var == 2
y_var == 3
c_const == 4
LowerPrefix ==
    <<LowerInstruction(Nop, "Nop", dummy, dummy, NotAnObject, 0, 0),
      Variable(x_var, Unsigned(8), 1),
      Variable(y_var, Unsigned(4), 0),
      [Constant(<<2>>, Unsigned(8)) EXCEPT !.id = c_const]>>

\* the operands drawn for an instruction: "prev" is the node before it, "next"
\* the instruction after it
OperandInputs ==
    {<<"x", "x">>, <<"x", "c">>, <<"x", "y">>, <<"prev", "x">>, <<"prev", "y">>}
StoreOperandInputs == {<<"x", "c">>, <<"y", "c">>, <<"prev", "c">>, <<"next", "c">>}
MaxValueInputs == {200, 300}

\* the instructions drawn: [operator, operands, max_value]
InstrInputs ==
    {<<op, o, 0>> : op \in {"Add", "Mul", "And", "Xor"}, o \in OperandInputs}
    \cup {<<"Sub", o, m>> : o \in OperandInputs, m \in MaxValueInputs}
    \cup {<<"Store", o, 0>> : o \in StoreOperandInputs}
    \cup {<<"Jmp", <<"x", "x">>, 0>>}

OperandHandle(name, h) ==
    CASE name = "x" -> x_var
      [] name = "y" -> y_var
      [] name = "c" -> c_const
      [] name = "prev" -> h - 1
      [] name = "next" -> h + 1

\* the arena of the instructions f[1], .., f[n], drawn from InstrInputs
LowerArena(f, n) ==
    LowerPrefix \o
    [j \in 1 .. n |->
        LET h == Len(LowerPrefix) + j
        IN LowerInstruction(h, f[j][1], OperandHandle(f[j][2][1], h),
                            OperandHandle(f[j][2][2], h), Unsigned(4), f[j][3], 0)]

\* the state the lowering has reached, as one value
L == Lowering(arith_cache, memory_map, Evaluator(gates, current_witness_index))

LoweringBecomes(lo) ==
    /\ arith_cache' = lo.arith_cache
    /\ memory_map' = lo.memory_map
    /\ gates' = lo.ev.gates
    /\ current_witness_index' = lo.ev.current_witness_index

\* IRGenerator::acir, before the first instruction of the block
InitAcir ==
    /\ pc = "lower"
    /\ InitAlgIdle /\ InitOptIdle /\ InitCfgIdle
    \* a Store may name the instruction that follows it, never one past the
    \* end of the block
    /\ \E n \in 1 .. MaxInstrs : \E f \in [1 .. n -> InstrInputs] :
          /\ f[n][2][1] # "next"
          /\ nodes = LowerArena(f, n)
    /\ instructions = <<Nop>> \o [j \in 1 .. Len(nodes) - Len(LowerPrefix) |->
                                    Len(LowerPrefix) + j]
    /\ call = [op |-> "acir", pos |-> 0]
    /\ ret = 0
    /\ arith_cache = <<>>
    /\ memory_map = <<>>
    /\ gates = <<>>
    /\ current_witness_index = 1
    /\ witness_values = <<>>

\* the arguments and the outcome of the evaluate_instruction call just made
InstructionCall(ins, l_c, r_c, outcome) ==
    [op |-> "evaluate_instruction", pos |-> call.pos + 1, ins |-> ins.idx,
     l_c |-> l_c, r_c |-> r_c, outcome |-> outcome]

\* one turn of the loop of IRGenerator::acir: evaluate_instruction(ins) on the
\* next instruction of the block. A Nop returns at once; any other instruction
\* has its operands substituted, lhs first, is lowered by its operator, and
\* its output is inserted in arith_cache under its own handle
EvaluateInstruction ==
    /\ pc = "lower"
    /\ call.pos < Len(instructions)
    /\ \E ins \in {nodes[instructions[call.pos + 1]]} :
          IF ins.operator = "Nop"
          THEN /\ call' = InstructionCall(ins, InternalVar(ArithmeticDefault, 0, 0),
                                          InternalVar(ArithmeticDefault, 0, 0), "returns")
               /\ pc' = "lower"
               /\ UNCHANGED <<arith_cache, memory_map, gates, current_witness_index>>
          ELSE \E s1 \in {substitute(ins.lhs, L, nodes)} :
               \E s2 \in {substitute(ins.rhs, s1.lo, nodes)} :
               \E r \in {evaluate_operator(ins, s1.var, s2.var, s2.lo, nodes)} :
                  /\ LoweringBecomes(
                        Lowering((ins.idx :> InternalVar(r.out, 0, ins.idx))
                                     @@ s2.lo.arith_cache,
                                 r.memory_map, r.ev))
                  /\ call' = InstructionCall(ins, s1.var, s2.var, r.outcome)
                  /\ pc' = IF r.outcome = "returns" THEN "lower" ELSE "stopped"
    /\ UNCHANGED <<algVars, optVars, nodes, instructions, ret, cfgVars, witness_values>>

NextAcir == EvaluateInstruction

SpecAcir == InitAcir /\ [][NextAcir]_vars

\* the instruction evaluate_instruction has just been called on
Lowered == nodes[call'.ins]

\* C14: the InternalVar of a node is computed at most once: a substitute of a
\* handle that arith_cache holds returns the cached entry, and no entry of
\* arith_cache is ever replaced by another one
InternalVarComputedOnce ==
    [][pc = "lower" =>
        /\ \A h \in DOMAIN arith_cache :
              h \in DOMAIN arith_cache' /\ arith_cache'[h] = arith_cache[h]
        /\ Lowered.operator # "Nop" =>
              /\ Lowered.lhs \in DOMAIN arith_cache => call'.l_c = arith_cache[Lowered.lhs]
              /\ Lowered.rhs \in DOMAIN arith_cache => call'.r_c = arith_cache[Lowered.rhs]]_vars

\* n is the least multiple of r that is not below m: n = ceil(m / r) * r
IsCeilMultiple(n, m, r) == n % r = 0 /\ n >= m /\ n - r < m

\* C15: lowering Sub yields add(lhs, -1, rhs) with its constant term increased
\* by k*2^bits, bits the width of the right operand's type and
\* k = ceil(max_value / 2^bits); with 8 bits and max_value 200 the increase is
\* 2^8; and lhs - rhs + k*2^bits is not negative for any rhs up to max_value
SubOffsetCompensates ==
    [][pc = "lower" /\ Lowered.operator = "Sub" =>
        \E bit_size \in {node_bits(nodes, Lowered.rhs)} :
        \E offset \in {n \in 0 .. Lowered.max_value + Pow2(bit_size) :
                          IsCeilMultiple(n, Lowered.max_value, Pow2(bit_size))} :
        \E plain \in {add(call'.l_c.expression, FNeg(FOne), call'.r_c.expression)} :
           /\ call'.outcome = "returns"
           /\ arith_cache'[Lowered.idx].expression =
                 [plain EXCEPT !.q_c = FAdd(@, offset % FieldModulus)]
           /\ (bit_size = 8 /\ Lowered.max_value = 200) => offset = Pow2(8)
           /\ \A rhs_value \in 0 .. Lowered.max_value :
                 \A lhs_value \in {0, 1, Lowered.max_value} :
                    lhs_value - rhs_value + offset >= 0]_vars

\* a Sub whose right operand has 8 bits and max_value 200 has been lowered,
\* and its constant term is 2^8 in the field
SubOffsetWitness ==
    /\ pc = "lower"
    /\ call.op = "evaluate_instruction"
    /\ nodes[call.ins].operator = "Sub"
    /\ nodes[call.ins].max_value = 200
    /\ node_bits(nodes, nodes[call.ins].rhs) = 8
    /\ arith_cache[call.ins].expression = Arithmetic(<<>>, <<>>, Pow2(8) % FieldModulus)

\* C16: lowering a Mul whose two operands are the same handle, bound to
\* witness w, allocates no witness and emits no gate, and its result is the
\* single bilinear term (1, w, w), with no linear term and constant 0
SquareIsOneBilinearTerm ==
    [][(/\ pc = "lower"
        /\ Lowered.operator = "Mul"
        /\ Lowered.lhs = Lowered.rhs
        /\ nodes[Lowered.lhs].kind = "Obj"
        /\ nodes[Lowered.lhs].witness # 0) =>
        /\ call'.outcome = "returns"
        /\ current_witness_index' = current_witness_index
        /\ gates' = gates
        /\ arith_cache'[Lowered.idx].expression =
              Arithmetic(<<<<FOne, nodes[Lowered.lhs].witness, nodes[Lowered.lhs].witness>>>>,
                         <<>>, FZero)]_vars

\* x * x has been lowered, x bound to witness 1, after an instruction that
\* allocated a witness
SquareWitness ==
    /\ pc = "lower"
    /\ call.op = "evaluate_instruction"
    /\ nodes[call.ins].operator = "Mul"
    /\ nodes[call.ins].lhs = x_var
    /\ nodes[call.ins].rhs = x_var
    /\ current_witness_index > 1
    /\ arith_cache[call.ins].expression = Arithmetic(<<<<FOne, 1, 1>>>>, <<>>, FZero)

\* the gates the call under way has pushed
NewGates == SubSeq(gates', Len(gates) + 1, Len(gates'))

\* w is the witness of the operand v in the gates just pushed: the witness v
\* carries, or else a fresh one that a gate binds to v's expression
IsWitnessOfOperand(w, v) ==
    IF v.witness # 0 THEN w = v.witness
    ELSE /\ w > current_witness_index
         /\ \E i \in DOMAIN NewGates :
               NewGates[i] = ArithmeticGate(Minus(v.expression, from_witness(w)))

\* the lowering of the bitwise instructions in ops emits exactly one bitwise
\* gate, on the witnesses of the two operands, and returns its result witness
BitwiseGateFor(ops) ==
    (pc = "lower" /\ Lowered.operator \in ops /\ call'.outcome = "returns") =>
        LET g == Last(gates')
        IN /\ {i \in DOMAIN NewGates : NewGates[i].gate \in {"And", "Xor"}} = {Len(NewGates)}
           /\ g.gate = Lowered.operator
           /\ IsWitnessOfOperand(g.a, call'.l_c)
           /\ IsWitnessOfOperand(g.b, call'.r_c)
           /\ g.result \in current_witness_index + 1 .. current_witness_index'
           /\ g.result \notin {g.a, g.b}
           /\ arith_cache'[Lowered.idx].expression = from_witness(g.result)

\* C20: lowering And or Xor emits exactly one bitwise gate whose input a is
\* the witness of the left operand and whose input b is the witness of the
\* right operand, operands without a witness being bound to one first, and
\* returns the gate's fresh result witness as a degree-1 expression
BitwiseGateOnOperands == [][BitwiseGateFor({"And", "Xor"})]_vars

----------------------------------------------------------------------------
(* Acir: the gates of bound_check, evaluate_truncate and evaluate_udiv, and
   the witness values that satisfy them *)

\* the value of an expression under the witness values vals
RECURSIVE MulValue(_, _)
MulValue(terms, vals) ==
    IF terms = <<>> THEN FZero
    ELSE FAdd(FMul(Head(terms)[1], FMul(vals[Head(terms)[2]], vals[Head(terms)[3]])),
              MulValue(Tail(terms), vals))

RECURSIVE LinValue(_, _)
LinValue(terms, vals) ==
    IF terms = <<>> THEN FZero
    ELSE FAdd(FMul(Head(terms)[1], vals[Head(terms)[2]]), LinValue(Tail(terms), vals))

ExprValue(expr, vals) ==
    FAdd(MulValue(expr.mul_terms, vals),
         FAdd(LinValue(expr.linear_combinations, vals), expr.q_c))

Max(S) == CHOOSE m \in S : \A n \in S : n <= m

\* the highest witness a gate constrains (0: it constrains none); a Directive
\* tells the solver how to compute witnesses and constrains nothing
MaxWitnessOf(g) ==
    CASE g.gate = "Arithmetic" ->
            Max({0} \cup {g.expr.mul_terms[i][2] : i \in DOMAIN g.expr.mul_terms}
                    \cup {g.expr.mul_terms[i][3] : i \in DOMAIN g.expr.mul_terms}
                    \cup {g.expr.linear_combinations[i][2] :
                             i \in DOMAIN g.expr.linear_combinations})
      [] g.gate = "Range" -> g.w
      [] OTHER -> 0

\* the gate holds under vals: an Arithmetic gate is expr = 0 in the field, a
\* Range gate is w < 2^bits on the integer that represents the field element
Holds(g, vals) ==
    CASE g.gate = "Arithmetic" -> ExprValue(g.expr, vals) = FZero
      [] g.gate = "Range" -> vals[g.w] < Pow2(g.bits)
      [] OTHER -> TRUE

\* no gate whose witnesses all have a value is violated
Consistent(gs, vals) ==
    \A i \in DOMAIN gs : MaxWitnessOf(gs[i]) <= Len(vals) => Holds(gs[i], vals)

\* the assignments of the witnesses 1 .. n that extend vals and satisfy gs
RECURSIVE Solutions(_, _, _)
Solutions(gs, vals, n) ==
    IF ~Consistent(gs, vals) THEN {}
    ELSE IF Len(vals) >= n THEN {vals}
    ELSE UNION {Solutions(gs, Append(vals, v), n) : v \in 0 .. FieldModulus - 1}

\* the operands of the helpers: the variable bound to witness 1 and the one
\* bound to witness 2
a_var == InternalVar(from_witness(1), 1, 0)
b_var == InternalVar(from_witness(2), 2, 0)

\* the calls drawn, with the values of the operands' witnesses: operands of
\* bound_check fit in bits, those of evaluate_udiv in UdivBits
RangeInputs ==
    {<<[op |-> "bound_check", strict |-> strict, bits |-> bits], <<x, y>>>> :
        strict \in BOOLEAN, bits \in 1 .. max_num_bits - 1,
        x \in 0 .. FieldModulus - 1, y \in 0 .. FieldModulus - 1}
    \cup {<<[op |-> "bound_check", strict |-> strict, bits |-> max_num_bits], <<0, 0>>>> :
             strict \in BOOLEAN}
    \cup {<<[op |-> "evaluate_truncate", rhs |-> n, max_bits |-> n + m], <<x>>>> :
             n \in 1 .. max_num_bits, m \in 1 .. max_num_bits, x \in 0 .. FieldModulus - 1}
    \cup {<<[op |-> "evaluate_udiv"], <<x, y>>>> :
             x \in 0 .. Pow2(UdivBits) - 1, y \in 0 .. Pow2(UdivBits) - 1}

FitsIn(v, bits) == v < Pow2(bits)

InitRange ==
    /\ pc = "call"
    /\ InitAlgIdle /\ InitOptIdle /\ InitCfgIdle
    /\ nodes = <<>> /\ instructions = <<>> /\ ret = 0
    /\ \E in \in {i \in RangeInputs :
                     i[1].op = "bound_check" /\ i[1].bits < max_num_bits
                        => FitsIn(i[2][1], i[1].bits) /\ FitsIn(i[2][2], i[1].bits)} :
          /\ call = in[1]
          /\ witness_values = in[2]
    /\ arith_cache = <<>>
    /\ memory_map = <<>>
    /\ gates = <<>>
    /\ current_witness_index = Len(witness_values)

EvaluatorBecomes(ev) ==
    /\ gates' = ev.gates
    /\ current_witness_index' = ev.current_witness_index
    /\ pc' = IF ev.todo THEN "stopped" ELSE "called"
    /\ UNCHANGED <<algVars, optVars, nodes, instructions, ret, cfgVars,
                   arith_cache, memory_map, witness_values>>

\* bound_check(a, b, strict, bits)
CallBoundCheck ==
    /\ pc = "call"
    /\ call.op = "bound_check"
    /\ EvaluatorBecomes(bound_check(a_var, b_var, call.strict, call.bits,
                                    Evaluator(gates, current_witness_index)))
    /\ UNCHANGED call

\* evaluate_truncate(a, rhs, max_bits)
CallTruncate ==
    /\ pc = "call"
    /\ call.op = "evaluate_truncate"
    /\ LET r == evaluate_truncate(a_var, call.rhs, call.max_bits,
                                  Evaluator(gates, current_witness_index))
       IN /\ EvaluatorBecomes(r.ev)
          /\ call' = call @@ [out |-> r.out]

\* evaluate_udiv(a, b)
CallUdiv ==
    /\ pc = "call"
    /\ call.op = "evaluate_udiv"
    /\ LET r == evaluate_udiv(a_var, b_var, Evaluator(gates, current_witness_index))
       IN /\ EvaluatorBecomes(r.ev)
          /\ call' = call @@ [q |-> r.q, r |-> r.r]

\* the prover gives the witnesses of the circuit values that satisfy its gates
Solve ==
    /\ pc = "called"
    /\ witness_values' \in Solutions(gates, witness_values, current_witness_index)
    /\ pc' = "solved"
    /\ UNCHANGED <<algVars, optVars, genVars, cfgVars, arith_cache, memory_map, gates,
                   current_witness_index>>

NextRange == CallBoundCheck \/ CallTruncate \/ CallUdiv \/ Solve

SpecRange == InitRange /\ [][NextRange]_vars

\* the gates pushed so far have a satisfying assignment that extends the
\* values of the operands' witnesses
Satisfiable == Solutions(gates, witness_values, current_witness_index) # {}

\* C18: for operands a and b that fit in bits, bits at most the field's bit
\* width less one, the gates of bound_check(a, b, strict, bits) are
\* satisfiable if and only if a < b when strict, a <= b when not
BoundCheckDecidesOrder ==
    (pc = "called" /\ call.op = "bound_check") =>
        (Satisfiable <=> IF call.strict THEN witness_values[1] < witness_values[2]
                         ELSE witness_values[1] <= witness_values[2])

\* C17: every assignment that satisfies the gates of evaluate_udiv(a, b), a
\* and b within the bit size, has a = q*b + r, r < b and q within the bit
\* size; none has r >= b
UdivGatesGiveQuotientAndRemainder ==
    (pc = "solved" /\ call.op = "evaluate_udiv") =>
        LET x == witness_values[1]
            y == witness_values[2]
            q == witness_values[call.q]
            r == witness_values[call.r]
        IN /\ x = q * y + r
           /\ r < y
           /\ q < Pow2(UdivBits)

\* C19: every assignment that satisfies the gates of evaluate_truncate(a, N, M),
\* M > N, has a = b + 2^N * c with b < 2^N and c < 2^(M-N), so that the
\* witness returned, b, is a mod 2^N; for every N and M-N, the widths that
\* are 1, odd or the field's bit width included
TruncateGatesGiveRemainder ==
    (pc = "solved" /\ call.op = "evaluate_truncate") =>
        LET x == witness_values[1]
            y == witness_values[call.out.linear_combinations[1][2]]
            z == witness_values[call.out.linear_combinations[1][2] + 1]
        IN /\ call.out = from_witness(call.out.linear_combinations[1][2])
           /\ x = y + Pow2(call.rhs) * z
           /\ y < Pow2(call.rhs)
           /\ z < Pow2(call.max_bits - call.rhs)
           /\ y = x % Pow2(call.rhs)

----------------------------------------------------------------------------
(* Acir: loads, stores, deleted instructions and gadget calls in a block *)

\* most instructions of the block with memory instructions that is lowered
MaxMemInstrs == 3

\* the arena before the instructions that are drawn: the Nop that opens the
\* block, a variable x that holds witness 1, a pointer p to the array, and the
\* constants 1 and 2, which are addresses of the array
MemHandles == [x |-> 2, p |-> 3, c1 |-> 4, c2 |-> 5]
MemPrefix ==
    <<LowerInstruction(1, "Nop", dummy, dummy, NotAnObject, 0, 0),
      Variable(MemHandles.x, Unsigned(8), 1),
      Variable(MemHandles.p, Pointer(1), 0),
      [Constant(<<1>>, Unsigned(32)) EXCEPT !.id = MemHandles.c1],
      [Constant(<<2>>, Unsigned(32)) EXCEPT !.id = MemHandles.c2]>>

\* the instructions drawn: [operator, operands, is_deleted]. A Store has the
\* value as lhs and the address as rhs, a Load the address as lhs
MemInstrInputs ==
    {<<"Store", <<v, adr>>, FALSE>> : v \in {"x", "prev", "next"}, adr \in {"c1", "c2"}}
    \cup {<<"Load", <<adr, adr>>, FALSE>> : adr \in {"c1", "c2"}}
    \cup {<<"Add", <<v, "x">>, FALSE>> : v \in {"x", "prev"}}
    \cup {<<"EqGate", <<"prev", "x">>, d>> : d \in BOOLEAN}
    \cup {<<"Store", <<"x", "c1">>, TRUE>>}
    \cup {<<"StdLib(SHA256)", <<"p", "p">>, FALSE>>}

MemOperandHandle(name, h) ==
    CASE name = "prev" -> h - 1
      [] name = "next" -> h + 1
      [] OTHER -> MemHandles[name]

\* the arena of the instructions f[1], .., f[n], drawn from MemInstrInputs
MemArena(f, n) ==
    MemPrefix \o
    [j \in 1 .. n |->
        LET h == Len(MemPrefix) + j
        IN [LowerInstruction(h, f[j][1], MemOperandHandle(f[j][2][1], h),
                             MemOperandHandle(f[j][2][2], h), Unsigned(8), 0, 0)
               EXCEPT !.is_deleted = f[j][3]]]

\* IRGenerator::acir, before the first instruction of a block with memory
\* instructions; the witnesses 1 .. 4 are those of x and of the array
InitMem ==
    /\ pc = "lower"
    /\ InitAlgIdle /\ InitOptIdle /\ InitCfgIdle
    /\ \E n \in 1 .. MaxMemInstrs : \E f \in [1 .. n -> MemInstrInputs] :
          /\ f[n][2][1] # "next"
          /\ nodes = MemArena(f, n)
    /\ instructions = <<1>> \o [j \in 1 .. Len(nodes) - Len(MemPrefix) |->
                                  Len(MemPrefix) + j]
    /\ call = [op |-> "acir", pos |-> 0]
    /\ ret = 0
    /\ arith_cache = <<>>
    /\ memory_map = <<>>
    /\ gates = <<>>
    /\ current_witness_index = 4
    /\ witness_values = <<>>

SpecMem == InitMem /\ [][NextAcir]_vars

\* the address a constant handle stands for
AddressOf(h) == from_be_bytes_reduce(nodes[h].value)

\* the positions of the Stores to address adr that have been lowered
StoresLowered(adr) ==
    {j \in 1 .. call.pos :
        /\ nodes[instructions[j]].operator = "Store"
        /\ AddressOf(nodes[instructions[j]].rhs) = adr}

\* the expression a Load of address adr is to return: that of the value of the
\* latest Store to adr, or else the array's witness at adr - base
StoredAt(adr) ==
    IF StoresLowered(adr) = {}
    THEN from_witness(mem_arrays[1].witness[adr - mem_arrays[1].adr + 1])
    ELSE arith_cache'[nodes[instructions[Max(StoresLowered(adr))]].lhs].expression

\* lowering a Store of address adr pushes no gate and changes memory_map at
\* adr only
StoreOnlyAt(adr) ==
    /\ gates' = gates
    /\ DOMAIN memory_map' = DOMAIN memory_map \cup {adr}
    /\ \A other \in DOMAIN memory_map : other # adr => memory_map'[other] = memory_map[other]

\* C21: a Load at a constant address A returns the expression of the value of
\* the latest Store to A lowered before it, or the array's witness at
\* A - base when there is none; lowering a Store with a constant address
\* pushes no gate and changes the address map at A only
LoadReturnsLatestStore ==
    [][pc = "lower" =>
        /\ Lowered.operator = "Load" =>
              arith_cache'[Lowered.idx].expression = StoredAt(AddressOf(Lowered.lhs))
        /\ Lowered.operator = "Store" => StoreOnlyAt(AddressOf(Lowered.rhs))]_vars

\* the inputs of a gadget call on the array a pointer names: one per element,
\* its witness and the bit width of the element type
ArrayInputs(array) ==
    [i \in 1 .. Len(array.witness) |->
        [witness |-> array.witness[i], num_bits |-> bits_of(array.element_type)]]

\* C22: lowering a StandardLibraryCall for SHA256 whose argument is a pointer
\* to an array completes and pushes exactly one GadgetCall gate naming the
\* opcode, with one input per element of the array and freshly allocated
\* output witnesses
Sha256PushesOneGadgetCall ==
    [][(pc = "lower" /\ Lowered.operator = "StdLib(SHA256)"
            /\ nodes[Lowered.lhs].obj_type[1] = "Pointer") =>
        /\ call'.outcome = "returns"
        /\ Len(gates') = Len(gates) + 1
        /\ \E g \in {gates'[Len(gates')]} :
              /\ g.gate = "GadgetCall"
              /\ g.name = "SHA256"
              /\ g.inputs = ArrayInputs(mem_arrays[nodes[Lowered.lhs].obj_type[2]])
              /\ \A i \in DOMAIN g.outputs :
                    g.outputs[i] \in current_witness_index + 1 .. current_witness_index']_vars

-----------------------------------------------------------------------------
(* Acir: range_constraint called on its own, over a field of 8 bits           *)

\* the calls of range_constraint a behaviour makes
MaxCalls == 2

\* the widths asked for: up to one more than the bits of the field
WidthInputs == 0 .. max_num_bits + 1

\* the witnesses the circuit starts with
WidthWitnesses == {1, 2}

InitWidth ==
    /\ pc = "width"
    /\ InitAlgIdle /\ InitOptIdle /\ InitCfgIdle
    /\ nodes = <<>> /\ instructions = <<>> /\ ret = 0
    /\ call = [op |-> "none", pos |-> 0]
    /\ arith_cache = <<>>
    /\ memory_map = <<>>
    /\ gates = <<>>
    /\ current_witness_index = 2
    /\ witness_values = <<>>

\* range_constraint(witness, num_bits, evaluator)
CallRangeConstraint ==
    /\ pc = "width"
    /\ call.pos < MaxCalls
    /\ \E witness \in WidthWitnesses :
       \E nbits \in WidthInputs :
       \E r \in {range_constraint(witness, nbits, Evaluator(gates, current_witness_index))} :
          /\ gates' = r.ev.gates
          /\ current_witness_index' = r.ev.current_witness_index
          /\ call' = [op |-> "range_constraint", pos |-> call.pos + 1,
                      witness |-> witness, num_bits |-> nbits, err |-> r.err]
    /\ UNCHANGED <<algVars, optVars, nodes, instructions, ret, cfgVars, pc,
                   arith_cache, memory_map, witness_values>>

NextWidth == CallRangeConstraint

SpecWidth == InitWidth /\ [][NextWidth]_vars

\* the odd widths range_constraint splits: 3 and more, below the bits of the
\* field
IsSplitWidth(n) == n % 2 = 1 /\ n >= 3 /\ n < max_num_bits

\* g constrains w = rw + 2^(n-1)*bw
IsReconstruction(g, w, rw, bw, n) ==
    /\ g.gate = "Arithmetic"
    /\ g.expr.mul_terms = <<>>
    /\ g.expr.q_c = FZero
    /\ \A t \in {g.expr.linear_combinations[i][2] : i \in DOMAIN g.expr.linear_combinations} :
          t \in {w, rw, bw}
    /\ CoefOfWitness(g.expr, rw) = FOne
    /\ CoefOfWitness(g.expr, bw) = FPow2(n - 1)
    /\ CoefOfWitness(g.expr, w) = FNeg(FOne)

\* C23: for an odd width N of 3 or more below the bits of the field,
\* range_constraint(w, N) pushes the odd-range directive, a range check of
\* N-1 bits on r, the boolean constraint on b and the constraint
\* w = r + 2^(N-1)*b; whatever the calls made, no Range gate of the gate list
\* has an odd width; a request of 1 bit pushes the constraint w*w - w = 0 and
\* no Range gate
OddWidthIsSplit ==
    [][pc = "width" =>
        \E w \in {call'.witness} : \E n \in {call'.num_bits} :
        \E rw \in {current_witness_index + 1} : \E bw \in {current_witness_index + 2} :
           /\ IsSplitWidth(n) =>
                 /\ Len(NewGates) = 4
                 /\ NewGates[1] = [gate |-> "Directive", name |-> "Oddrange",
                                   a |-> w, b |-> bw, r |-> rw, bit_size |-> n]
                 /\ NewGates[2] = RangeGate(rw, n - 1)
                 /\ NewGates[3] = ArithmeticGate(Arithmetic(<<<<FOne, bw, bw>>>>,
                                                            <<<<FNeg(FOne), bw>>>>, FZero))
                 /\ IsReconstruction(NewGates[4], w, rw, bw, n)
           /\ \A i \in DOMAIN gates' : gates'[i].gate = "Range" => gates'[i].bits % 2 = 0
           /\ n = 1 =>
                 NewGates = <<ArithmeticGate(Arithmetic(<<<<FOne, w, w>>>>,
                                                        <<<<FNeg(FOne), w>>>>, FZero))>>]_vars

\* two calls have been made, the second of width 7: it pushed its directive
\* and the Range gate of 6 bits
OddWidthWitness ==
    /\ pc = "width"
    /\ call.pos = 2
    /\ call.num_bits = 7
    /\ \E i \in DOMAIN gates :
          /\ gates[i].gate = "Directive" /\ gates[i].name = "Oddrange" /\ gates[i].bit_size = 7
          /\ i + 1 \in DOMAIN gates /\ gates[i + 1] = RangeGate(gates[i].r, 6)

\* C24: range_constraint(w, n) returns an error and pushes no gate whenever
\* the width n asked for equals or exceeds the bits of the field
WidthAtOrAboveFieldIsError ==
    [][(pc = "width" /\ call'.num_bits >= max_num_bits) =>
        /\ call'.err
        /\ gates' = gates]_vars

-----------------------------------------------------------------------------
(* Acir: the errors of range_constraint inside evaluate_truncate              *)

\* range_constraint returns Err for the width nbits
RangeErr(nbits) == range_constraint(1, nbits, Evaluator(<<>>, 1)).err

\* C25: when range_constraint reports an error inside the lowering of an
\* instruction, here evaluate_truncate(a, rhs, max_bits), the lowering stops
\* there: the instruction yields no result expression, and no gate is pushed
\* after the error (an error of the first range_constraint leaves the Truncate
\* directive as the only new gate)
RangeErrorStopsLowering ==
    [][(pc = "call" /\ call.op = "evaluate_truncate"
            /\ (RangeErr(call.rhs) \/ RangeErr(call.max_bits - call.rhs))) =>
        /\ pc' = "stopped"
        /\ "out" \notin DOMAIN call'
        /\ RangeErr(call.rhs) => Len(gates') = Len(gates) + 1]_vars

-----------------------------------------------------------------------------
(* Acir: the gate list over the lowering of a block                          *)

\* C26: the gate list is append-only: over every step of the lowering the
\* gate list before the step is a prefix of the gate list after it
GatesAppendOnly ==
    [][/\ Len(gates) <= Len(gates')
       /\ SubSeq(gates', 1, Len(gates)) = gates]_vars

\* two instructions have been lowered one after the other, each pushing gates
GatesAppendWitness ==
    /\ pc = "lower"
    /\ call.op = "evaluate_instruction"
    /\ call.pos = Len(instructions)
    /\ Len(instructions) >= 3
    /\ Len(gates) >= 3

-----------------------------------------------------------------------------
(* SSA: the order of a block's instructions, which IRGenerator::acir walks   *)

\* handle h is listed in the instruction list lst before position pos
ListedBefore(lst, h, pos) == \E j \in 1 .. pos - 1 : lst[j] = h

\* C27: when acir, walking a block's instruction list in order, comes to an
\* instruction, every operand of it that is itself an instruction of the
\* block has been evaluated already, that is, is listed before it; so the
\* value e of the Store made from `arr[i] = e` precedes the Store
OperandsPrecedeInstruction ==
    \A bl \in DOMAIN blocks : \A pos \in DOMAIN blocks[bl].instructions :
    \E lst \in {blocks[bl].instructions} : \E ins \in {nodes[lst[pos]]} :
       \A h \in {ins.lhs, ins.rhs} :
          (h \in InstructionsOf(nodes) /\ \E j \in DOMAIN lst : lst[j] = h)
             => ListedBefore(lst, h, pos)

-----------------------------------------------------------------------------
(* Acir: the deleted instructions of a block                                 *)

\* C28: an instruction marked deleted that is still listed in its block
\* contributes nothing to the circuit: lowering it pushes no gate, allocates
\* no witness and leaves the address map as it is
DeletedContributesNothing ==
    [][(pc = "lower" /\ Lowered.is_deleted) =>
        /\ gates' = gates
        /\ current_witness_index' = current_witness_index
        /\ memory_map' = memory_map]_vars

-----------------------------------------------------------------------------
(* SSA: the constant get_const returns                                       *)

\* C30: whatever constants new_constant and get_const created before, the
\* handle get_const(x, t) returns names a Constant of value x and of type t
GetConstHasValueAndType ==
    call.op = "get_const" =>
        /\ nodes[ret].kind = "Const"
        /\ nodes[ret].value = from_bytes_be(call.x)
        /\ nodes[ret].value_type = call.t

-----------------------------------------------------------------------------
(* SSA: let, private and assignment statements, and the roots of variables   *)

\* the definitions (IdentId) of the identifiers of the program
DefInputs == {1, 2}

\* the variables of the arena
VariablesOf(ns) == {h \in 1 .. Len(ns) : ns[h].kind = "Obj"}

\* find_variable(definition): the first variable of the arena with this
\* definition (0: None)
find_variable(ns, def) ==
    LET found == {h \in VariablesOf(ns) : ns[h].def = def}
    IN IF found = {} THEN 0 ELSE Min(found)

\* Variable::get_root: the root, or the variable itself when it has none
get_root(v) == IF v.root # 0 THEN v.root ELSE v.id

\* add_variable(obj, root) on the builder, obj of type t and definition def
add_variable_in(g, def, t, root) ==
    LET r == add_variable(g.nodes, <<>>, root)
    IN [g EXCEPT !.nodes = [r.nodes EXCEPT ![r.ret] = @ @@ [def |-> def, obj_type |-> t]],
                 !.ret = r.ret]

\* cb.update_variable(var, val) on the current block of the builder
update_current_block(g, var, val) ==
    [g EXCEPT !.blocks[g.current_block] = update_variable(@, var, val)]

\* update_variable_id(var_id, new_var, new_value): the value map of the
\* current block (the names of the versions are not modelled)
update_variable_id(g, var_id, new_var, new_value) ==
    update_current_block(g, var_id, new_value)

\* IRGenerator::new and block::create_first_block: one sealed block that
\* holds a Nop; evaluate_main is about to evaluate main's statements
InitAssign ==
    /\ pc = "statement"
    /\ InitAlgIdle
    /\ InitOptIdle
    /\ InitAcirIdle
    /\ nodes = <<[Instruction("Nop", dummy, dummy, NotAnObject) EXCEPT !.idx = 1]>>
    /\ instructions = <<>>
    /\ call = NoCall
    /\ ret = 0
    /\ blocks = <<[BasicBlock("Normal", <<>>) EXCEPT !.instructions = <<1>>]>>
    /\ current_block = 1
    /\ sealed_blocks = {1}
    /\ loops = <<[fn |-> "evaluate_main", stmt |-> 0]>>

\* evaluate_statement of `let x = e`, x a new identifier
\* (handle_let_statement): the right side is evaluated, the variable is
\* created without a root, the Ass instruction is inserted and recorded as
\* the value of the variable in the current block
EvalLet ==
    /\ pc = "statement"
    /\ StatementsOf(loops) < MaxStmts
    /\ \E def \in {d \in DefInputs : find_variable(nodes, d) = 0} : \E e \in ExprInputs :
       \E g1 \in {expression_to_object(G, e)} :
       \E rtype \in {get_object_type(g1.nodes, g1.ret)} :
       \E g2 \in {add_variable_in(g1, def, rtype, 0)} :
       \E g3 \in {NewInstructionIn(g2, g2.ret, g1.ret, "Ass", rtype, "keep")} :
          /\ BuilderBecomes([update_current_block(g3, g2.ret, g3.ret) EXCEPT !.ret = g3.ret])
          /\ call' = [op |-> "let", def |-> def]
    /\ loops' = StatementDone(loops)
    /\ UNCHANGED <<pc, algVars, optVars, instructions, acirVars>>

\* evaluate_statement of `priv x = e`, x a new identifier
\* (handle_private_statement): the variable is created without a root, then
\* the right side is evaluated and the Ass instruction inserted and recorded
EvalPrivate ==
    /\ pc = "statement"
    /\ StatementsOf(loops) < MaxStmts
    /\ \E def \in {d \in DefInputs : find_variable(nodes, d) = 0} : \E e \in ExprInputs :
       \E g1 \in {add_variable_in(G, def, NativeField, 0)} :
       \E g2 \in {expression_to_object(g1, e)} :
       \E r_type \in {get_object_type(g2.nodes, g2.ret)} :
       \E g3 \in {NewInstructionIn(g2, g1.ret, g2.ret, "Ass", r_type, "keep")} :
          /\ BuilderBecomes([update_current_block(g3, g1.ret, g3.ret) EXCEPT !.ret = g3.ret])
          /\ call' = [op |-> "private", def |-> def]
    /\ loops' = StatementDone(loops)
    /\ UNCHANGED <<pc, algVars, optVars, instructions, acirVars>>

\* the left side of an assignment: the variable find_variable gives, or else
\* a variable created on the spot and recorded as its own value
assigned_variable(g, def) ==
    IF find_variable(g.nodes, def) # 0
    THEN [g EXCEPT !.ret = find_variable(g.nodes, def)]
    ELSE LET gv == add_variable_in(g, def, NativeField, 0)
         IN update_current_block(gv, gv.ret, gv.ret)

\* evaluate_statement of `x = e` (HirStatement::Assign): a new version of x
\* is created with the root of the left side as its root, the right side is
\* evaluated, the Ass instruction is inserted and update_variable_id records
\* it under the root
EvalAssign ==
    /\ pc = "statement"
    /\ StatementsOf(loops) < MaxStmts
    /\ \E def \in DefInputs : \E e \in ExprInputs :
       \E g0 \in {assigned_variable(G, def)} :
       \E lhs \in {g0.nodes[g0.ret]} :
       \E ls_root \in {get_root(lhs)} :
       \E g1 \in {add_variable_in(g0, def, lhs.obj_type, ls_root)} :
       \E g2 \in {expression_to_object(g1, e)} :
       \E r_type \in {get_object_type(g2.nodes, g2.ret)} :
       \E g3 \in {NewInstructionIn(g2, g1.ret, g2.ret, "Ass", r_type, "keep")} :
          /\ BuilderBecomes([update_variable_id(g3, ls_root, g1.ret, g3.ret)
                                EXCEPT !.ret = g3.ret])
          /\ call' = [op |-> "assign", def |-> def, new_var |-> g1.ret]
    /\ loops' = StatementDone(loops)
    /\ UNCHANGED <<pc, algVars, optVars, instructions, acirVars>>

NextAssign == EvalLet \/ EvalPrivate \/ EvalAssign

SpecAssign == InitAssign /\ [][NextAssign]_vars

\* the root of variable h is absent, or a variable whose own root is absent
RootIsFirstVersion(h) ==
    \/ nodes[h].root = 0
    \/ /\ nodes[h].root \in VariablesOf(nodes)
       /\ nodes[nodes[h].root].root = 0

\* C29: after any let, private and assignment statements the root of every
\* variable is absent or is a variable whose own root is absent, and an
\* assignment has recorded the new value under the first version of the
\* variable in the value map of the current block
RootChainsAtMostOne ==
    /\ \A h \in VariablesOf(nodes) : RootIsFirstVersion(h)
    /\ call.op = "assign" =>
          \E first \in {nodes[call.new_var].root} :
             /\ first = find_variable(nodes, call.def)
             /\ first \in DOMAIN blocks[current_block].value_array
             /\ blocks[current_block].value_array[first] = ret
             /\ nodes[ret].operator = "Ass" /\ nodes[ret].lhs = call.new_var

\* a variable has been assigned twice: its third version is linked to the
\* first
RootChainsWitness ==
    /\ call.op = "assign"
    /\ \E h \in VariablesOf(nodes) :
          /\ h # call.new_var
          /\ nodes[h].root # 0
          /\ nodes[h].root = nodes[call.new_var].root

====
